---- MODULE Spec2Model ----
(***************************************************************************)
(* A model of polycopycatbot: the settlement service (RedemptionService),  *)
(* the risk-sized executor (TradeExecutor), the wallet differ              *)
(* (WalletMonitor) and the orchestrator (BotRunner).                       *)
(*                                                                         *)
(* Money and sizes are fixed-point integers in units of 0.001 ("mills"):   *)
(* 1.0 is 1000, one cent is 10.  Times are whole seconds of the monotonic  *)
(* clock; dates are day numbers, 0 standing for the empty date string.     *)
(***************************************************************************)
EXTENDS Integers, Sequences, FiniteSets, TLC

\* ------------------------------------------------------------------ bounds
NumCids == 2
MaxBatch == 2
MaxTime == 90
MaxDay == 2
MaxRestarts == 1
NumMarkets == 2
MaxPnl == 4000
MaxPolls == 3
MaxRequests == 3
NumTraders == 3

Cids == 1..NumCids

Markets == 1..NumMarkets

\* ------------------------------------------------------- program constants
DAILY_TX_LIMIT == 80
MIN_REDEEM_INTERVAL == 30
DEFAULT_COOLDOWN == 3600
CLAIM_SWEEP_INTERVAL == 360
DISCOVERY_MAX_PER_SWEEP == 5
DUST_SIZE == 500
\* Config.max_traders when nothing is set
DEFAULT_MAX_TRADERS == 5

\* --------------------------------------------------------------- variables
VARIABLES
    now,                  \* time.monotonic(), whole seconds
    utcDate,              \* datetime.now(timezone.utc) as a day number
    \* RedemptionService
    configured,           \* is_configured
    daily_tx_count,
    daily_tx_date,
    quota_reset_at,
    last_redeem_time,
    redeemed_conditions,
    batch,                \* to_redeem of the batch_redeem call that is polling, else << >>
    \* observation of the settlement runs
    result,               \* what the batch_redeem that just finished returned
    last,                 \* the batch_redeem call of the step just taken
    prevCall,             \* the call before it on the same service
    everSubmitted,        \* condition ids submitted to the relayer in this process
    restarts,             \* RedemptionService objects built after the first
    \* TradeExecutor
    today,                \* date.today(), the local date, as a day number
    config,
    open_positions,       \* market_id -> [size, entry_price]
    daily_pnl,
    last_reset_date,
    \* observation of the executor
    calc,                 \* the calculate_size call of the step just taken
    tripped,              \* the UTC day on which DailyPnL <= -limit was last seen
    \* WalletMonitor
    known_positions,      \* trader address -> (market_id -> size)
    \* observation of the differ
    diff,                 \* the detect_changes call of the step just taken
    \* BotRunner._run_loop, one task
    loop_pc,              \* where the tick-loop task is
    loop_end,             \* how the task ended: "none", "cancelled", "crashed"
    stop_requested,       \* stop() has cancelled the task
    poll_count,
    persisted,            \* market ids of the rows of the positions table
    \* observation of the tick loop
    tick,                 \* the tick of the step just taken
    \* BotRunner lifecycle: start() and stop() calls from HTTP requests
    running,              \* self._running
    task,                 \* self._task: a task id, 0 for None
    tasks,                \* task id -> [pc, cancel]: the _run_loop tasks
    thread,               \* task id -> the monitor its to_thread worker runs
                          \* detect_changes on, 0 when it has no worker
    monitor,              \* self.monitor: a WalletMonitor id, 0 for None
    closed,               \* the monitors whose httpx client is closed
    req,                  \* request -> the start() or stop() call it makes
    \* the size comparison of detect_changes on its own
    eps,                  \* the pair of sizes last compared and the verdict
    \* the two position ledgers as collections of entries
    position_items,       \* the items of executor.open_positions
    position_rows,        \* the rows of the positions table
    ledger_obs,           \* whether a write has met an entry of its market
    \* the executor's P&L against the calendar
    realized_today,       \* sum of the P&L realized since the last midnight
    \* the end of batch_redeem on its own
    polled,               \* the batch, what the poll ended with, the dict returned
    \* BotRunner._claim_sweep
    sweep_pc,             \* "idle", or "checked" once resolved_cids is built
    sweep_rows,           \* the rows of the positions table: market, condition
    resolved_cids,        \* the list the sweep hands to batch_redeem
    \* RedemptionService.discover_and_redeem_orphans
    orphan_env,           \* the wallet's positions index, the ids the caller
                          \* knows, the conditions resolved on-chain
    orphan_cids,          \* the candidate list of the call in progress
    \* RedemptionService.check_resolved
    resolution,           \* the last call: what the chain answered, what the
                          \* call returned
    \* TradeExecutor, the last open/adjust/close call on record
    handled,              \* the method, its Position, the venue's answer, the
                          \* size calculated, the ledger before, orders placed
    \* BotRunner and the wallets it follows
    self_addresses,       \* BotRunner.addresses
    first_held,           \* wallet -> the markets it has held without a break
                          \* since before the runner first polled it
    pending,              \* the events detect_changes returned that no
                          \* executor call has been made for
    unshared,             \* <<market, wallet, size>>: a closed event of another
                          \* wallet removed the ledger entry of the market
                          \* while this wallet held it, as it has since
    trader_rows,          \* the rows of the traders table: address, source
    max_traders           \* Config.max_traders

envVars == <<now, utcDate>>
redeemVars == <<configured, daily_tx_count, daily_tx_date, quota_reset_at,
                last_redeem_time, redeemed_conditions, batch>>
redeemObs == <<result, last, prevCall, everSubmitted, restarts>>

redeemAll == <<redeemVars, redeemObs>>
execVars == <<config, open_positions, daily_pnl, last_reset_date>>
execObs == <<calc, tripped>>
execAll == <<execVars, execObs>>

monAll == <<known_positions, diff>>
loopAll == <<loop_pc, loop_end, stop_requested, poll_count, persisted, tick>>
lifeAll == <<running, task, tasks, thread, monitor, closed, req>>
ledgerVars == <<position_items, position_rows, ledger_obs>>
extra1All == <<eps, ledgerVars, realized_today>>
sweepVars == <<sweep_pc, sweep_rows, resolved_cids>>
orphanVars == <<orphan_env, orphan_cids>>
extra2All == <<polled, resolution, sweepVars, orphanVars>>
feedVars == <<self_addresses, first_held, pending, unshared, trader_rows,
              max_traders>>
extraAll == <<extra1All, extra2All, handled, feedVars>>

vars == <<envVars, redeemAll, today, execAll, monAll, loopAll, lifeAll, extraAll>>

\* What the steps of one component leave alone.
notRedeem == <<today, execAll, monAll, loopAll, lifeAll, extraAll>>
notExec == <<now, redeemAll, monAll, loopAll, lifeAll, extraAll>>
notMon == <<envVars, redeemAll, today, execAll, loopAll, lifeAll, extraAll>>
notLoop == <<envVars, redeemAll, today, execAll, monAll, lifeAll, extraAll>>
notLife == <<envVars, redeemAll, today, execAll, monAll, loopAll, extraAll>>
coreAll == <<envVars, redeemAll, today, execAll, monAll, loopAll, lifeAll>>
notExtra == <<coreAll, extra2All, handled, feedVars>>
notPnl == <<now, redeemAll, execObs, monAll, loopAll, lifeAll, extra2All,
           handled, feedVars>>
notLedger == <<envVars, redeemAll, today, execObs, monAll, loopAll, lifeAll,
               extra2All, handled, feedVars>>
notExtra2 == <<coreAll, extra1All, handled, feedVars>>
notSweep == <<today, config, daily_pnl, last_reset_date, execObs, monAll,
              loopAll, lifeAll, extra1All, polled, resolution, orphanVars,
              handled, feedVars>>
notDiscover == <<today, execAll, monAll, loopAll, lifeAll, extra1All, polled,
                 resolution, sweep_rows, orphan_env, handled, feedVars>>
notHandled == <<now, redeemAll, monAll, loopAll, lifeAll, extra1All,
                extra2All, feedVars>>

\* ------------------------------------------------------------ small helpers
Range(s) == {s[i] : i \in DOMAIN s}

Min(a, b) == IF a <= b THEN a ELSE b

Abs(x) == IF x < 0 THEN -x ELSE x

\* ===================================================== RedemptionService ==

ClockSteps == {30}

HintSeconds == {45}

\* What client.execute can do: return a result, raise a plain error, raise an
\* error carrying "429"/"rate" with or without a "resets in N seconds" hint.
SubmitOutcomes ==
    {[kind |-> "ok", hint |-> 0], [kind |-> "error", hint |-> 0],
     [kind |-> "rate", hint |-> 0]}
    \cup {[kind |-> "rate", hint |-> n] : n \in HintSeconds}

\* What client.poll_until_state can do: return a final record in one of the
\* three terminal states (with or without a transactionHash), return None
\* when the poll budget is exhausted, or raise.
PollOutcomes ==
    {[state |-> s, hash |-> h] :
        s \in {"STATE_CONFIRMED", "STATE_MINED"}, h \in BOOLEAN}
    \cup {[state |-> "STATE_FAILED", hash |-> FALSE],
          [state |-> "none", hash |-> FALSE],
          [state |-> "raise", hash |-> FALSE],
          [state |-> "raise_rate", hash |-> FALSE]}

\* The lists batch_redeem is called with: nonempty (both callers test for
\* that), repeats allowed, given here in ascending order of the ids.
BatchInputs ==
    {ids \in UNION {[1..n -> Cids] : n \in 1..MaxBatch} :
        \A i \in 1..(Len(ids) - 1) : ids[i] <= ids[i + 1]}

NoResult == [success |-> FALSE, redeemed |-> << >>, tx_hash |-> "", error |-> "none"]

NoCall == [n |-> 0, nNew |-> 0, allNew |-> FALSE, before |-> 0,
           rolled |-> FALSE, after |-> 0, subs |-> 0, outcome |-> "none",
           repeat |-> FALSE, prevRecorded |-> FALSE, resubmitted |-> FALSE]

\* No call yet on this service: batch_redeem is never called with no ids.
NoPrev == [idset |-> {}, recorded |-> FALSE]

\* A slip that would drop the filter of already-redeemed ids.
ToRedeem_NoFilter(condition_ids, redeemed) == condition_ids

\* batch_redeem, the filter of already-redeemed ids
ToRedeem(condition_ids, redeemed) ==
    SelectSeq(condition_ids, LAMBDA cid : cid \notin redeemed)

\* A slip that would never see the date change.
QuotaRolls_Never(utc_today, tx_date) == FALSE

\* _check_quota, the date rollover: the counter and the cooldown are reset
QuotaRolls(utc_today, tx_date) == utc_today /= tx_date

\* A slip that would drop the minimum interval between submissions.
QuotaAllows_NoInterval(t, reset_at, count, last_time) ==
    /\ ~(reset_at > 0 /\ t < reset_at)
    /\ ~(count >= DAILY_TX_LIMIT)

\* A slip that would let one more submission through at the ceiling.
QuotaAllows_PastCeiling(t, reset_at, count, last_time) ==
    /\ ~(reset_at > 0 /\ t < reset_at)
    /\ ~(count > DAILY_TX_LIMIT)
    /\ ~(t - last_time < MIN_REDEEM_INTERVAL)

\* _check_quota, the three denials, on the state after the rollover reset
QuotaAllows(t, reset_at, count, last_time) ==
    /\ ~(reset_at > 0 /\ t < reset_at)
    /\ ~(count >= DAILY_TX_LIMIT)
    /\ ~(t - last_time < MIN_REDEEM_INTERVAL)

\* A slip that would charge one quota slot per condition of the batch.
RecordTxCount_PerCondition(count, to_redeem) == count + Len(to_redeem)

\* _record_tx: one quota slot for the whole batch
RecordTxCount(count, to_redeem) == count + 1

\* A slip that would do the bookkeeping in the except handler as well.
Recorded_AlsoWhenRaised(outcome) == outcome \in {"submitted", "raised"}

\* batch_redeem: _record_tx and the additions to _redeemed_conditions are
\* reached only when client.execute returned
Recorded(outcome) == outcome = "submitted"

\* A slip that would leave the ids out of the set until they are confirmed.
RedeemedAfterSubmit_Deferred(redeemed, to_redeem) == redeemed

\* batch_redeem, after client.execute returned: every id of the batch goes
\* into _redeemed_conditions
RedeemedAfterSubmit(redeemed, to_redeem) == redeemed \cup Range(to_redeem)

\* The client.execute calls batch_redeem makes for a batch: one, carrying a
\* SafeTransaction per condition.
ExecuteCalls(to_redeem) == 1

\* _handle_429: the cooldown timestamp
CooldownUntil(t, hint) == IF hint > 0 THEN t + hint ELSE t + DEFAULT_COOLDOWN

\* Whether batch_redeem gets as far as client.execute.
ReachesExecute(condition_ids) ==
    /\ configured
    /\ ToRedeem(condition_ids, redeemed_conditions) /= << >>
    /\ QuotaAllows(now,
                   IF QuotaRolls(utcDate, daily_tx_date) THEN 0 ELSE quota_reset_at,
                   IF QuotaRolls(utcDate, daily_tx_date) THEN 0 ELSE daily_tx_count,
                   last_redeem_time)

\* The first half of batch_redeem: everything up to the return of
\* client.execute and the bookkeeping that follows it without a suspension.
\* Both callers (the claim sweep and the orphan discovery) test is_configured
\* before they get here.
BatchRedeem(condition_ids, sub) ==
    /\ configured
    /\ batch = << >>
    /\ result = NoResult
    /\ ReachesExecute(condition_ids) \/ sub.kind = "ok"
    /\ LET to_redeem == ToRedeem(condition_ids, redeemed_conditions)
           rolls == QuotaRolls(utcDate, daily_tx_date)
           count0 == IF rolls THEN 0 ELSE daily_tx_count
           reset0 == IF rolls THEN 0 ELSE quota_reset_at
           allowed == QuotaAllows(now, reset0, count0, last_redeem_time)
           outcome ==
               IF ~configured THEN "unconfigured"
               ELSE IF to_redeem = << >> THEN "noop"
               ELSE IF ~allowed THEN "denied"
               ELSE IF sub.kind = "ok" THEN "submitted"
               ELSE "raised"
           gated == outcome \in {"denied", "submitted", "raised"}
           count1 == IF Recorded(outcome)
                        THEN RecordTxCount(count0, to_redeem)
                        ELSE IF gated THEN count0 ELSE daily_tx_count
       IN  /\ daily_tx_count' = count1
           /\ daily_tx_date' = IF gated THEN utcDate ELSE daily_tx_date
           /\ quota_reset_at' =
                 IF outcome = "raised" /\ sub.kind = "rate"
                    THEN CooldownUntil(now, sub.hint)
                    ELSE IF gated THEN reset0 ELSE quota_reset_at
           /\ last_redeem_time' =
                 IF Recorded(outcome) THEN now ELSE last_redeem_time
           /\ redeemed_conditions' =
                 IF Recorded(outcome)
                    THEN RedeemedAfterSubmit(redeemed_conditions, to_redeem)
                    ELSE redeemed_conditions
           /\ batch' = IF outcome = "submitted" THEN to_redeem ELSE << >>
           /\ result' =
                 CASE outcome = "unconfigured" ->
                        [NoResult EXCEPT !.error = "not configured"]
                   [] outcome = "noop" ->
                        [NoResult EXCEPT !.success = TRUE, !.error = ""]
                   [] outcome = "denied" ->
                        [NoResult EXCEPT !.error = "quota"]
                   [] outcome = "raised" ->
                        [NoResult EXCEPT !.error = "exception"]
                   [] OTHER -> NoResult
           /\ last' = [n |-> Len(condition_ids),
                       nNew |-> Cardinality(Range(to_redeem)),
                       allNew |-> Range(condition_ids) \cap redeemed_conditions = {},
                       before |-> daily_tx_count,
                       rolled |-> gated /\ rolls,
                       after |-> count1,
                       subs |-> IF outcome = "submitted"
                                   THEN ExecuteCalls(to_redeem) ELSE 0,
                       outcome |-> outcome,
                       repeat |-> prevCall.idset = Range(condition_ids),
                       prevRecorded |-> prevCall.recorded,
                       resubmitted |-> /\ outcome = "submitted"
                                       /\ Range(to_redeem) \cap everSubmitted /= {}]
           /\ prevCall' = [idset |-> Range(condition_ids),
                           recorded |-> outcome \in {"submitted", "noop"}]
           /\ everSubmitted' =
                 IF outcome = "submitted"
                    THEN everSubmitted \cup Range(to_redeem) ELSE everSubmitted
    /\ UNCHANGED <<envVars, configured, restarts>>
    /\ UNCHANGED notRedeem

\* A slip that would report an exhausted poll budget as a failure.
PollResult_BudgetIsFailure(to_redeem, p) ==
    IF p.state \in {"STATE_CONFIRMED", "STATE_MINED"}
       THEN [success |-> TRUE, redeemed |-> to_redeem,
             tx_hash |-> IF p.hash THEN "confirming" ELSE "submission",
             error |-> ""]
       ELSE [NoResult EXCEPT !.error = "failed on-chain"]

\* batch_redeem: the dict returned once poll_until_state has ended with p.
\* final.get("transactionHash", tx_hash) is the hash of the final record when
\* it carries one and the hash client.execute returned otherwise.
PollResult(to_redeem, p) ==
    CASE p.state \in {"STATE_CONFIRMED", "STATE_MINED"} ->
           [success |-> TRUE, redeemed |-> to_redeem,
            tx_hash |-> IF p.hash THEN "confirming" ELSE "submission",
            error |-> ""]
      [] p.state = "STATE_FAILED" ->
           [NoResult EXCEPT !.error = "failed on-chain"]
      [] p.state = "none" ->
           [success |-> TRUE, redeemed |-> to_redeem,
            tx_hash |-> "submission", error |-> ""]
      [] OTHER -> [NoResult EXCEPT !.error = "exception"]

\* The to_redeem lists a poll can follow: nonempty, repeats and any order
\* allowed (the filter keeps the order and the repeats of condition_ids).
PollBatches == UNION {[1..n -> Cids] : n \in 1..(MaxBatch + 1)}

NoPoll == [called |-> FALSE, to_redeem |-> << >>,
           final |-> [state |-> "none", hash |-> FALSE], returned |-> NoResult]

\* batch_redeem from the return of poll_until_state to its own return.
FinishPoll(to_redeem, p) ==
    /\ polled' = [called |-> TRUE, to_redeem |-> to_redeem, final |-> p,
                  returned |-> PollResult(to_redeem, p)]
    /\ UNCHANGED <<resolution, sweepVars, orphanVars>>
    /\ UNCHANGED notExtra2

\* The second half of batch_redeem: the poll for a terminal state and the
\* result built from it.
BatchRedeemPoll(p) ==
    /\ batch /= << >>
    /\ result' = PollResult(batch, p)
    /\ quota_reset_at' =
          IF p.state = "raise_rate" THEN CooldownUntil(now, 0) ELSE quota_reset_at
    /\ batch' = << >>
    /\ last' = NoCall
    /\ UNCHANGED <<envVars, configured, daily_tx_count, daily_tx_date,
                   last_redeem_time, redeemed_conditions, prevCall,
                   everSubmitted, restarts>>
    /\ UNCHANGED notRedeem

\* BotRunner.start builds a new RedemptionService (after a stop, which
\* cancels whatever call was in flight): every field starts over.
NewService(cfgd) ==
    /\ restarts < MaxRestarts
    /\ result = NoResult
    /\ restarts' = restarts + 1
    /\ configured' = cfgd
    /\ daily_tx_count' = 0
    /\ daily_tx_date' = 0
    /\ quota_reset_at' = 0
    /\ last_redeem_time' = 0
    /\ redeemed_conditions' = {}
    /\ batch' = << >>
    /\ result' = NoResult
    /\ prevCall' = NoPrev
    /\ last' = NoCall
    /\ UNCHANGED <<envVars, everSubmitted>>
    /\ UNCHANGED notRedeem

AdvanceClock(d) ==
    /\ now + d <= MaxTime
    /\ result = NoResult
    /\ now' = now + d
    /\ result' = NoResult
    /\ last' = NoCall
    /\ UNCHANGED <<utcDate, redeemVars, prevCall, everSubmitted, restarts>>
    /\ UNCHANGED notRedeem

\* The caller of batch_redeem takes the returned dict.
ReturnToCaller ==
    /\ result /= NoResult
    /\ result' = NoResult
    /\ last' = NoCall
    /\ UNCHANGED <<envVars, redeemVars, prevCall, everSubmitted, restarts>>
    /\ UNCHANGED notRedeem

UtcMidnight ==
    /\ utcDate < MaxDay
    /\ result = NoResult
    /\ utcDate' = utcDate + 1
    /\ result' = NoResult
    /\ last' = NoCall
    /\ UNCHANGED <<now, redeemVars, prevCall, everSubmitted, restarts>>
    /\ UNCHANGED notRedeem

InitEnv ==
    /\ now = 30
    /\ utcDate = 1

InitRedeemState ==
    /\ daily_tx_count = 0
    /\ daily_tx_date = 0
    /\ quota_reset_at = 0
    /\ last_redeem_time = 0
    /\ redeemed_conditions = {}
    /\ batch = << >>
    /\ result = NoResult
    /\ last = NoCall
    /\ prevCall = NoPrev
    /\ everSubmitted = {}
    /\ restarts = 0

InitRedeem ==
    /\ configured = TRUE
    /\ InitRedeemState

\* ========================================================= TradeExecutor ==

\* Config defaults (config.py), in mills; max_concurrent_positions and the
\* daily loss limit are set low so that a few events reach them.
DefaultConfig ==
    [capital_ratio |-> 10000, account_balance_usd |-> 0,
     max_position_pct |-> 50, max_position_usd |-> 50000,
     max_concurrent_positions |-> 2, daily_loss_limit_usd |-> 2000,
     paper_trading |-> TRUE]

\* The configurations: the defaults (fixed-dollar cap of 50), a configured
\* balance of 60.12 (cap 60.12 * 0.05 = 3.006), and live trading.
ExecConfigs ==
    {DefaultConfig,
     [DefaultConfig EXCEPT !.account_balance_usd = 60120],
     [DefaultConfig EXCEPT !.paper_trading = FALSE]}

TraderSizes == {5000, 40000, 1000000}

Prices == {250, 500}

\* A Position as the executor reads it: market_id, size, price, and whether
\* token_id is nonempty.
PositionInputs ==
    [market_id : Markets, size : TraderSizes, price : Prices, has_token : BOOLEAN]

\* What the order venue does with a live order: accept it (status filled,
\* matched or live), answer with another status, or fail.
OrderOutcomes == {"accepted", "rejected", "raise"}

NoCalc == [called |-> FALSE, size |-> 0, result |-> 0, halted |-> FALSE]

\* round(size, 2) on mills: to the nearest cent, a tie to the even cent
Round2(x) ==
    LET q == x \div 10
        r == x % 10
    IN  IF r < 5 THEN q * 10
        ELSE IF r > 5 THEN (q + 1) * 10
        ELSE IF q % 2 = 0 THEN q * 10 ELSE (q + 1) * 10

\* calculate_size: raw_size = trader_position.size / capital_ratio
RawSize(cfg, size) == (size * 1000) \div cfg.capital_ratio

\* calculate_size: the cap in force
MaxSize(cfg) ==
    IF cfg.account_balance_usd > 0
       THEN (cfg.account_balance_usd * cfg.max_position_pct) \div 1000
       ELSE cfg.max_position_usd

\* calculate_size: the daily P&L after the reset at a new (local) date
PnlAfterReset(pnl, day, reset_date) == IF day /= reset_date THEN 0 ELSE pnl

\* A slip that would leave out the test of the concurrent limit.
SizeFor_NoConcurrentLimit(cfg, n_open, pnl, size) ==
    LET sz == Min(RawSize(cfg, size), MaxSize(cfg))
    IN  IF sz < 1000 THEN 0
        ELSE IF pnl <= -cfg.daily_loss_limit_usd THEN 0
        ELSE Round2(sz)

\* calculate_size: the value returned, given the P&L after the reset
SizeFor(cfg, n_open, pnl, size) ==
    LET sz == Min(RawSize(cfg, size), MaxSize(cfg))
    IN  IF sz < 1000 THEN 0
        ELSE IF n_open >= cfg.max_concurrent_positions THEN 0
        ELSE IF pnl <= -cfg.daily_loss_limit_usd THEN 0
        ELSE Round2(sz)

\* close_position: the realized P&L of a popped entry
RealizedPnl(entry, price) ==
    IF entry.entry_price > 0
       THEN (entry.size * price) \div entry.entry_price - entry.size
       ELSE 0

Put(ledger, m, entry) ==
    [k \in (DOMAIN ledger) \cup {m} |-> IF k = m THEN entry ELSE ledger[k]]

Drop(ledger, m) == [k \in (DOMAIN ledger) \ {m} |-> ledger[k]]

Halted == tripped = utcDate

TrippedAfter(pnl) ==
    IF pnl <= -config.daily_loss_limit_usd THEN utcDate ELSE tripped

\* The size calculate_size returns in the current state.
SizeNow(pos) ==
    SizeFor(config, Cardinality(DOMAIN open_positions),
            PnlAfterReset(daily_pnl, today, last_reset_date), pos.size)

\* In paper mode no order is placed and token_id is not read.
Relevant(pos, order) ==
    config.paper_trading => (order = "accepted" /\ pos.has_token)

\* What every calculate_size call does to the executor and to the observation.
CalcEffects(pos) ==
    /\ ~calc.called
    /\ daily_pnl' = PnlAfterReset(daily_pnl, today, last_reset_date)
    /\ last_reset_date' = today
    /\ calc' = [called |-> TRUE, size |-> pos.size, result |-> SizeNow(pos),
                halted |-> Halted]
    /\ tripped' = TrippedAfter(daily_pnl')

CalculateSize(pos) ==
    /\ Relevant(pos, "accepted")
    /\ CalcEffects(pos)
    /\ UNCHANGED <<today, utcDate, config, open_positions>>
    /\ UNCHANGED notExec

\* A slip that would write the entry whatever status the venue answers.
LiveBuy_AnyStatus(ledger, pos, size, order) ==
    IF pos.has_token /\ order /= "raise"
       THEN Put(ledger, pos.market_id, [size |-> size, entry_price |-> pos.price])
       ELSE ledger

\* _execute_live_buy: the ledger after a live buy of `size`
LiveBuy(ledger, pos, size, order) ==
    IF pos.has_token /\ order = "accepted"
       THEN Put(ledger, pos.market_id, [size |-> size, entry_price |-> pos.price])
       ELSE ledger

\* open_position: the ledger after the call, given the size calculated
LedgerAfterOpen(cfg, ledger, size, pos, order) ==
    IF size <= 0 THEN ledger
    ELSE IF cfg.paper_trading
       THEN Put(ledger, pos.market_id, [size |-> size, entry_price |-> pos.price])
       ELSE LiveBuy(ledger, pos, size, order)

OpenPosition(pos, order) ==
    /\ Relevant(pos, order)
    /\ CalcEffects(pos)
    /\ open_positions' =
          LedgerAfterOpen(config, open_positions, SizeNow(pos), pos, order)
    /\ UNCHANGED <<today, utcDate, config>>
    /\ UNCHANGED notExec

ClosePosition(pos) ==
    /\ ~calc.called
    /\ pos.has_token
    /\ pos.market_id \in DOMAIN open_positions
    /\ LET pnl == RealizedPnl(open_positions[pos.market_id], pos.price)
       IN  /\ Abs(daily_pnl + pnl) <= MaxPnl
           /\ daily_pnl' = daily_pnl + pnl
    /\ open_positions' = Drop(open_positions, pos.market_id)
    /\ UNCHANGED calc
    /\ tripped' = TrippedAfter(daily_pnl')
    /\ UNCHANGED <<today, utcDate, config, last_reset_date>>
    /\ UNCHANGED notExec

\* A slip that would leave out the test of the 1.0 minimum.
LiveAdjust_NoMinimum(ledger, pos, old_size, new_size) ==
    Put(ledger, pos.market_id, [size |-> new_size, entry_price |-> pos.price])

\* _execute_live_adjust: the ledger after a live adjustment
LiveAdjust(ledger, pos, old_size, new_size) ==
    IF Abs(new_size - old_size) < 1000 THEN ledger
    ELSE Put(ledger, pos.market_id, [size |-> new_size, entry_price |-> pos.price])

\* A slip that would take a size of 0 for the order to close.
LedgerAfterAdjust_ZeroCloses(cfg, ledger, new_size, pos) ==
    IF new_size <= 0 THEN Drop(ledger, pos.market_id)
    ELSE IF cfg.paper_trading
       THEN Put(ledger, pos.market_id,
                [size |-> new_size, entry_price |-> pos.price])
       ELSE ledger

\* adjust_position: the ledger after the call, given the size calculated
LedgerAfterAdjust(cfg, ledger, new_size, pos) ==
    LET old_size == IF pos.market_id \in DOMAIN ledger
                       THEN ledger[pos.market_id].size ELSE 0
    IN  IF new_size <= 0 THEN ledger
        ELSE IF cfg.paper_trading
           THEN Put(ledger, pos.market_id,
                    [size |-> new_size, entry_price |-> pos.price])
           ELSE LiveAdjust(ledger, pos, old_size, new_size)

AdjustPosition(pos, order) ==
    /\ Relevant(pos, order)
    /\ CalcEffects(pos)
    /\ open_positions' =
          LedgerAfterAdjust(config, open_positions, SizeNow(pos), pos)
    /\ UNCHANGED <<today, utcDate, config>>
    /\ UNCHANGED notExec

\* The caller of calculate_size, open_position or adjust_position goes on.
ExecReturn ==
    /\ calc.called
    /\ calc' = NoCalc
    /\ UNCHANGED <<today, utcDate, execVars, tripped>>
    /\ UNCHANGED notExec

\* The local date and the UTC date advance at different instants; they are
\* never more than a day apart.
LocalMidnight ==
    /\ ~calc.called
    /\ today < MaxDay
    /\ today <= utcDate
    /\ today' = today + 1
    /\ UNCHANGED calc
    /\ UNCHANGED <<utcDate, config, open_positions, daily_pnl, last_reset_date,
                   tripped>>
    /\ UNCHANGED notExec

ExecUtcMidnight ==
    /\ ~calc.called
    /\ utcDate < MaxDay
    /\ utcDate <= today
    /\ utcDate' = utcDate + 1
    /\ UNCHANGED calc
    /\ UNCHANGED <<today, execVars, tripped>>
    /\ UNCHANGED notExec

InitExec ==
    /\ today = 1
    /\ open_positions = << >>
    /\ daily_pnl = 0
    /\ last_reset_date = today
    /\ calc = NoCalc
    /\ tripped = 0

\* ========================================================= WalletMonitor ==

\* The 0.01 of detect_changes, in mills.
SIZE_EPSILON == 10

Wallets == {1, 2}

\* The address lists detect_changes is called with (BotRunner.addresses).
AddressLists == {<<1>>, <<2>>, <<1, 2>>}

WatchedMarkets == {1, 2}

\* Sizes 0.01 and 0.02 apart.  As doubles, 10.04 - 10.03 is just under the
\* double 0.01 and 10.05 - 10.04 just over it.
SnapshotSizes == {10030, 10040, 10050}

EmptySnapshot == << >>

\* What fetch_positions can return: a map market_id -> size with every size
\* above 0; the empty map also stands for every failed fetch.
Snapshots == UNION {[D -> SnapshotSizes] : D \in SUBSET WatchedMarkets}

NoDiff == [called |-> FALSE, addresses |-> << >>, before |-> << >>,
           fetched |-> << >>, new |-> << >>, closed |-> << >>,
           adjusted |-> << >>, failed |-> {}]

RECURSIVE SortedSeq(_)
SortedSeq(S) ==
    IF S = {} THEN << >>
    ELSE LET x == CHOOSE x \in S : \A y \in S : x <= y
         IN  <<x>> \o SortedSeq(S \ {x})

\* snapshot.items(): the Position objects of a snapshot, in key order
Items(addr, snap) ==
    LET keys == SortedSeq(DOMAIN snap)
    IN  [i \in 1..Len(keys) |->
            [market_id |-> keys[i], size |-> snap[keys[i]], trader |-> addr]]

\* Sizes are Python floats (IEEE doubles) parsed from the decimal the API
\* sent.  A size is written here as its decimal in mills, m; the double it
\* is parsed to is m/1000 + FloatErr(m) / (1000 * 2^59), the nearest number
\* with a 53-bit significand.  Decimals from 0.008 up to 2047.999.

\* floor(log2(m / 1000))
BinaryExponent(m) ==
    CHOOSE k \in -7..10 :
        /\ m * 128 >= 1000 * 2^(k + 7)
        /\ m * 128 < 1000 * 2^(k + 8)

\* 2^q modulo 1000
RECURSIVE Pow2Mod1000(_)
Pow2Mod1000(q) == IF q = 0 THEN 1 ELSE (2 * Pow2Mod1000(q - 1)) % 1000

\* float(m / 1000) - m / 1000, in units of 1 / (1000 * 2^59): the double is
\* n / 2^q with q = 52 - BinaryExponent(m) and n the integer nearest to
\* m * 2^q / 1000 (never a tie, 2^q being a multiple of 16).
FloatErr(m) ==
    LET k == BinaryExponent(m)
        r == ((m % 1000) * Pow2Mod1000(52 - k)) % 1000
    IN  (IF r < 500 THEN 0 - r ELSE 1000 - r) * 2^(k + 7)

\* abs(a - b) > c on doubles.  The subtraction of two doubles within a factor
\* of two of each other is exact, so the comparison is that of the decimals
\* unless a and b are exactly c apart, when the rounding errors decide.
FloatAbsDiffExceeds(a, b, c) ==
    LET d == Abs(a - b)
        e == IF a >= b THEN FloatErr(a) - FloatErr(b)
                       ELSE FloatErr(b) - FloatErr(a)
    IN  IF d /= c THEN d > c ELSE e > FloatErr(c)

\* A slip that would report every position a wallet keeps as adjusted.
IsAdjusted_Always(size, previous_size) == TRUE

\* A slip that would report every change of size.
IsAdjusted_AnyChange(size, previous_size) == size /= previous_size

\* detect_changes: abs(pos.size - previous[mid].size) > 0.01
IsAdjusted(size, previous_size) ==
    FloatAbsDiffExceeds(size, previous_size, SIZE_EPSILON)

\* detect_changes, one wallet: the positions appended to new_positions
WalletNew(addr, current, previous) ==
    SelectSeq(Items(addr, current),
              LAMBDA pos : pos.market_id \notin DOMAIN previous)

\* detect_changes, one wallet: the positions appended to adjusted_positions
WalletAdjusted(addr, current, previous) ==
    SelectSeq(Items(addr, current),
              LAMBDA pos : /\ pos.market_id \in DOMAIN previous
                           /\ IsAdjusted(pos.size, previous[pos.market_id]))

\* A slip that would report every previous position as closed.
WalletClosed_All(addr, current, previous) == Items(addr, previous)

\* detect_changes, one wallet: the positions appended to closed_positions
WalletClosed(addr, current, previous) ==
    SelectSeq(Items(addr, previous),
              LAMBDA pos : pos.market_id \notin DOMAIN current)

\* known_positions.get(addr, {})
PreviousOf(known, addr) ==
    IF addr \in DOMAIN known THEN known[addr] ELSE EmptySnapshot

\* A slip that would keep the markets of the previous snapshot that the
\* fetch no longer reports.
StoredSnapshot_Merged(current, previous) ==
    [k \in DOMAIN current \cup DOMAIN previous |->
        IF k \in DOMAIN current THEN current[k] ELSE previous[k]]

\* detect_changes: self.known_positions[addr] = current
StoredSnapshot(current, previous) == current

\* detect_changes: the loop over the addresses, from the snapshots known and
\* the lists built so far to those after the last wallet.
RECURSIVE DetectFrom(_, _, _, _)
DetectFrom(addresses, fetched, known, out) ==
    IF addresses = << >> THEN [known |-> known, out |-> out]
    ELSE LET addr == Head(addresses)
             current == fetched[addr]
             previous == PreviousOf(known, addr)
         IN  DetectFrom(Tail(addresses), fetched,
                 Put(known, addr, StoredSnapshot(current, previous)),
                 [new |-> out.new \o WalletNew(addr, current, previous),
                  closed |-> out.closed \o WalletClosed(addr, current, previous),
                  adjusted |-> out.adjusted
                                  \o WalletAdjusted(addr, current, previous)])

DetectChanges(addresses, fetched) ==
    /\ ~diff.called
    /\ LET r == DetectFrom(addresses, fetched, known_positions,
                           [new |-> << >>, closed |-> << >>, adjusted |-> << >>])
       IN  /\ known_positions' = r.known
           /\ diff' = [called |-> TRUE, addresses |-> addresses,
                       before |-> known_positions, fetched |-> fetched,
                       new |-> r.out.new, closed |-> r.out.closed,
                       adjusted |-> r.out.adjusted, failed |-> {}]
    /\ UNCHANGED notMon

\* The ways one fetch fails: a status other than 200, a body that is not a
\* list, an exception of the HTTP client or of the parsing.
FetchFailures == {"status", "not_list", "raise"}

\* The body a response with a status other than 200 may still carry.
ErrorBody == [m \in {1} |-> 10040]

\* What the data API answers to one request of fetch_positions.
Responses ==
    {[kind |-> "ok", data |-> snap] : snap \in Snapshots}
        \cup {[kind |-> k, data |-> ErrorBody] : k \in FetchFailures}

\* A slip that would parse the body whatever the status.
FetchPositions_AnyStatus(resp) ==
    IF resp.kind \in {"ok", "status"} THEN resp.data ELSE EmptySnapshot

\* fetch_positions: the map of the response, {} after any failure
FetchPositions(resp) ==
    IF resp.kind = "ok" THEN resp.data ELSE EmptySnapshot

\* detect_changes over the responses of the data API
DetectChangesFetching(addresses, responses) ==
    /\ ~diff.called
    /\ LET fetched == [a \in Range(addresses) |-> FetchPositions(responses[a])]
           r == DetectFrom(addresses, fetched, known_positions,
                           [new |-> << >>, closed |-> << >>, adjusted |-> << >>])
       IN  /\ known_positions' = r.known
           /\ diff' = [called |-> TRUE, addresses |-> addresses,
                       before |-> known_positions, fetched |-> fetched,
                       new |-> r.out.new, closed |-> r.out.closed,
                       adjusted |-> r.out.adjusted,
                       failed |-> {a \in Range(addresses) :
                                      responses[a].kind /= "ok"}]
    /\ UNCHANGED notMon

\* The tick loop takes the three lists.
DiffReturn ==
    /\ diff.called
    /\ diff' = NoDiff
    /\ UNCHANGED known_positions
    /\ UNCHANGED notMon

InitMon ==
    /\ known_positions = << >>
    /\ diff = NoDiff

\* The decimals two successive fetches report for one market: a cent or a
\* tenth of a cent apart, near 1, near 10 and near 100.
EpsilonSizes ==
    {1000, 1005, 1010, 1011, 1021, 10030, 10040, 10050, 10051,
     100000, 100010, 100011}

NoComparison == [called |-> FALSE, previous |-> 0, current |-> 0,
                 adjusted |-> FALSE]

\* detect_changes, the elif of a market present in both snapshots.
CompareSizes(previous_size, size) ==
    /\ eps' = [called |-> TRUE, previous |-> previous_size, current |-> size,
               adjusted |-> IsAdjusted(size, previous_size)]
    /\ UNCHANGED <<ledgerVars, realized_today>>
    /\ UNCHANGED notExtra

\* ------------------------------------------------- the position ledgers --
\* open_positions is a dict keyed by market_id and positions a table whose
\* primary key is market_id.  Here both are collections of entries, each
\* entry carrying its market_id, so that two entries of one market can be
\* told from one.

\* The positions the ledger calls are made with: any wallet, any market, a
\* size that calculate_size turns into 4.0 or into the cap of 50.0.
LedgerPositions ==
    [market_id : Markets, size : {40000, 1000000}, price : {500},
     trader : Wallets]

\* self.open_positions[market_id] = {"size": ..., "entry_price": ...}
SetItem(items, market_id, size, entry_price) ==
    {it \in items : it.market_id /= market_id}
        \cup {[market_id |-> market_id, size |-> size,
               entry_price |-> entry_price]}

\* self.open_positions.pop(market_id, {})
PopItem(items, market_id) == {it \in items : it.market_id /= market_id}

HasItem(items, market_id) == \E it \in items : it.market_id = market_id

\* INSERT INTO positions ... with no conflict clause
UpsertRows_PlainInsert(rows, row) == rows \cup {row}

\* INSERT INTO positions ... ON CONFLICT(market_id) DO UPDATE SET size_usd,
\* entry_price: the row of the market keeps its other columns.
UpsertRows(rows, row) ==
    IF \E r \in rows : r.market_id = row.market_id
       THEN {IF r.market_id = row.market_id
                THEN [r EXCEPT !.size_usd = row.size_usd,
                               !.entry_price = row.entry_price]
                ELSE r : r \in rows}
       ELSE rows \cup {row}

\* DELETE FROM positions WHERE market_id = ?
DeleteRows(rows, market_id) == {r \in rows : r.market_id /= market_id}

NoLedgerObs == [replaced |-> FALSE, conflict |-> FALSE]

\* calculate_size as open_position and adjust_position call it here.
LedgerSize(pos) ==
    SizeFor(config, Cardinality(position_items),
            PnlAfterReset(daily_pnl, today, last_reset_date), pos.size)

\* The dict assignment open_position and adjust_position end in when the
\* size is positive (paper mode).
ItemsAfterWrite(items, pos, size) ==
    IF size <= 0 THEN items ELSE SetItem(items, pos.market_id, size, pos.price)

ObsAfterWrite(pos, size) ==
    IF size > 0 /\ HasItem(position_items, pos.market_id)
       THEN [ledger_obs EXCEPT !.replaced = TRUE] ELSE ledger_obs

\* open_position, paper mode
LedgerOpen(pos) ==
    /\ config.paper_trading
    /\ daily_pnl' = PnlAfterReset(daily_pnl, today, last_reset_date)
    /\ last_reset_date' = today
    /\ position_items' = ItemsAfterWrite(position_items, pos, LedgerSize(pos))
    /\ ledger_obs' = ObsAfterWrite(pos, LedgerSize(pos))
    /\ UNCHANGED <<eps, realized_today, position_rows, config, open_positions>>
    /\ UNCHANGED notLedger

\* adjust_position, paper mode: the market need not be in the ledger
LedgerAdjust(pos) ==
    /\ config.paper_trading
    /\ daily_pnl' = PnlAfterReset(daily_pnl, today, last_reset_date)
    /\ last_reset_date' = today
    /\ position_items' = ItemsAfterWrite(position_items, pos, LedgerSize(pos))
    /\ ledger_obs' = ObsAfterWrite(pos, LedgerSize(pos))
    /\ UNCHANGED <<eps, realized_today, position_rows, config, open_positions>>
    /\ UNCHANGED notLedger

\* close_position
LedgerClose(pos) ==
    /\ HasItem(position_items, pos.market_id)
    /\ LET entry == CHOOSE it \in position_items : it.market_id = pos.market_id
       IN  daily_pnl' = daily_pnl + RealizedPnl(entry, pos.price)
    /\ position_items' = PopItem(position_items, pos.market_id)
    /\ UNCHANGED <<eps, realized_today, position_rows, ledger_obs, config, open_positions,
                   last_reset_date>>
    /\ UNCHANGED notLedger

\* db.upsert_position
UpsertPosition(market_id, size_usd, entry_price, trader) ==
    /\ position_rows' =
          UpsertRows(position_rows,
                     [market_id |-> market_id, size_usd |-> size_usd,
                      entry_price |-> entry_price, trader |-> trader])
    /\ ledger_obs' =
          IF \E r \in position_rows : r.market_id = market_id
             THEN [ledger_obs EXCEPT !.conflict = TRUE] ELSE ledger_obs
    /\ UNCHANGED <<eps, realized_today, position_items>>
    /\ UNCHANGED notExtra

\* db.remove_position
RemovePosition(market_id) ==
    /\ \E r \in position_rows : r.market_id = market_id
    /\ position_rows' = DeleteRows(position_rows, market_id)
    /\ UNCHANGED <<eps, realized_today, position_items, ledger_obs>>
    /\ UNCHANGED notExtra

\* ------------------------------------------ daily P&L across a midnight --
\* The executor on a host whose local date is the UTC date: both dates
\* advance in the same instant.

\* The positions the calls are made with.
PnlPositions ==
    [market_id : Markets, size : {40000}, price : Prices, has_token : {TRUE}]

\* calculate_size on its own
PnlCalculateSize(pos) ==
    /\ daily_pnl' = PnlAfterReset(daily_pnl, today, last_reset_date)
    /\ last_reset_date' = today
    /\ UNCHANGED <<today, utcDate, config, open_positions, realized_today>>
    /\ UNCHANGED <<eps, ledgerVars>>
    /\ UNCHANGED notPnl

\* open_position
PnlOpen(pos) ==
    /\ daily_pnl' = PnlAfterReset(daily_pnl, today, last_reset_date)
    /\ last_reset_date' = today
    /\ open_positions' =
          LedgerAfterOpen(config, open_positions, SizeNow(pos), pos, "accepted")
    /\ UNCHANGED <<today, utcDate, config, realized_today>>
    /\ UNCHANGED <<eps, ledgerVars>>
    /\ UNCHANGED notPnl

\* close_position: the realized P&L is added to daily_pnl as it stands
PnlClose(pos) ==
    /\ pos.market_id \in DOMAIN open_positions
    /\ LET pnl == RealizedPnl(open_positions[pos.market_id], pos.price)
       IN  /\ Abs(daily_pnl + pnl) <= MaxPnl
           /\ Abs(realized_today + pnl) <= MaxPnl
           /\ daily_pnl' = daily_pnl + pnl
           /\ realized_today' = realized_today + pnl
    /\ open_positions' = Drop(open_positions, pos.market_id)
    /\ UNCHANGED <<today, utcDate, config, last_reset_date>>
    /\ UNCHANGED <<eps, ledgerVars>>
    /\ UNCHANGED notPnl

\* Midnight: date.today() and the UTC date advance together.
Midnight ==
    /\ today < MaxDay
    /\ today' = today + 1
    /\ utcDate' = utcDate + 1
    /\ realized_today' = 0
    /\ UNCHANGED execVars
    /\ UNCHANGED <<eps, ledgerVars>>
    /\ UNCHANGED notPnl

\* ------------------------------------------------- the executor's calls --
\* open_position, adjust_position and close_position, each leaving on record
\* what it was called with and what it did.

NoHandled ==
    [kind |-> "none", market_id |-> 0, price |-> 0, has_token |-> FALSE,
     order |-> "accepted", size |-> 0, before |-> << >>, pnl |-> 0,
     orders |-> 0]

\* The orders open_position hands to the venue: one, in live mode, when the
\* size is positive and the position has a token id.
OrdersOfOpen(cfg, size, pos) ==
    IF size <= 0 \/ cfg.paper_trading \/ ~pos.has_token THEN 0 ELSE 1

\* The orders adjust_position hands to the venue: one, in live mode, when
\* the size is positive, differs from the ledger's by 1.0 or more and the
\* position has a token id.
OrdersOfAdjust(cfg, ledger, new_size, pos) ==
    LET old_size == IF pos.market_id \in DOMAIN ledger
                       THEN ledger[pos.market_id].size ELSE 0
    IN  IF new_size <= 0 \/ cfg.paper_trading THEN 0
        ELSE IF Abs(new_size - old_size) < 1000 THEN 0
        ELSE IF pos.has_token THEN 1 ELSE 0

HandledAs(kind, pos, order, size, orders) ==
    [kind |-> kind, market_id |-> pos.market_id, price |-> pos.price,
     has_token |-> pos.has_token, order |-> order, size |-> size,
     before |-> open_positions, pnl |-> daily_pnl, orders |-> orders]

OpenRecorded(pos, order) ==
    /\ handled = NoHandled
    /\ Relevant(pos, order)
    /\ CalcEffects(pos)
    /\ open_positions' =
          LedgerAfterOpen(config, open_positions, SizeNow(pos), pos, order)
    /\ handled' = HandledAs("open", pos, order, SizeNow(pos),
                            OrdersOfOpen(config, SizeNow(pos), pos))
    /\ UNCHANGED <<today, utcDate, config>>
    /\ UNCHANGED notHandled

AdjustRecorded(pos, order) ==
    /\ handled = NoHandled
    /\ Relevant(pos, order)
    /\ CalcEffects(pos)
    /\ open_positions' =
          LedgerAfterAdjust(config, open_positions, SizeNow(pos), pos)
    /\ handled' = HandledAs("adjust", pos, order, SizeNow(pos),
                            OrdersOfAdjust(config, open_positions,
                                           SizeNow(pos), pos))
    /\ UNCHANGED <<today, utcDate, config>>
    /\ UNCHANGED notHandled

\* A slip that would keep the entry when the live sell order fails.
LedgerAfterClose_KeptOnFailedSell(cfg, ledger, pos, order) ==
    IF ~cfg.paper_trading /\ (order /= "accepted" \/ ~pos.has_token)
       THEN ledger ELSE Drop(ledger, pos.market_id)

\* close_position: the ledger after the call; the entry is popped before the
\* sell order is tried, and _execute_live_sell lets no exception out.
LedgerAfterClose(cfg, ledger, pos, order) == Drop(ledger, pos.market_id)

\* close_position: daily_pnl after the call
PnlAfterClose(ledger, pnl, pos) ==
    IF pos.market_id \in DOMAIN ledger
       THEN pnl + RealizedPnl(ledger[pos.market_id], pos.price)
       ELSE pnl

\* The positions the recorded calls are made with: PositionInputs, and the
\* same at a price of 0.
HandledInputs ==
    PositionInputs \cup {[pos EXCEPT !.price = 0] : pos \in PositionInputs}

CloseRecorded(pos, order) ==
    /\ handled = NoHandled
    /\ Relevant(pos, order)
    /\ ~calc.called
    /\ Abs(PnlAfterClose(open_positions, daily_pnl, pos)) <= MaxPnl
    /\ daily_pnl' = PnlAfterClose(open_positions, daily_pnl, pos)
    /\ open_positions' =
          IF pos.market_id \in DOMAIN open_positions
             THEN LedgerAfterClose(config, open_positions, pos, order)
             ELSE open_positions
    /\ handled' = HandledAs("close", pos, order,
                            IF pos.market_id \in DOMAIN open_positions
                               THEN open_positions[pos.market_id].size ELSE 0,
                            IF /\ pos.market_id \in DOMAIN open_positions
                               /\ ~config.paper_trading
                               /\ pos.has_token
                               THEN 1 ELSE 0)
    /\ tripped' = TrippedAfter(daily_pnl')
    /\ UNCHANGED <<today, utcDate, config, last_reset_date, calc>>
    /\ UNCHANGED notHandled

\* The caller goes on: the record of the call is dropped.
HandledReturn ==
    /\ handled /= NoHandled
    /\ handled' = NoHandled
    /\ calc' = NoCalc
    /\ UNCHANGED <<today, utcDate, execVars, tripped>>
    /\ UNCHANGED notHandled

\* ------------------------------------------------------ check_resolved --
\* The reads of one check_resolved call.  FAILED stands for a step that
\* raises: the setup (web3, the bytes of the id), an eth_call.
FAILED == -1

ChainReads ==
    [setup : {0, FAILED}, denominator : {FAILED, 0, 1, 2, 3},
     numerator0 : {FAILED, 0, 1, 2}, numerator1 : {FAILED, 0, 1, 2}]

\* What the body of the try block does: return None on a zero denominator
\* before any numerator is read, return both numerators, or raise at the
\* first step that fails.  `calls` counts the eth_calls made.
ResolutionBody(r) ==
    IF r.setup = FAILED
       THEN [raises |-> TRUE, resolved |-> FALSE, numerators |-> << >>, calls |-> 0]
    ELSE IF r.denominator = FAILED
       THEN [raises |-> TRUE, resolved |-> FALSE, numerators |-> << >>, calls |-> 1]
    ELSE IF r.denominator = 0
       THEN [raises |-> FALSE, resolved |-> FALSE, numerators |-> << >>, calls |-> 1]
    ELSE IF r.numerator0 = FAILED
       THEN [raises |-> TRUE, resolved |-> FALSE, numerators |-> << >>, calls |-> 2]
    ELSE IF r.numerator1 = FAILED
       THEN [raises |-> TRUE, resolved |-> FALSE, numerators |-> << >>, calls |-> 3]
    ELSE [raises |-> FALSE, resolved |-> TRUE,
          numerators |-> <<r.numerator0, r.numerator1>>, calls |-> 3]

\* A slip that would let the exception out of check_resolved.
Resolution_Unhandled(r) == ResolutionBody(r)

\* check_resolved: `except Exception` turns what the body raises into None.
Resolution(r) ==
    LET body == ResolutionBody(r)
    IN  IF body.raises THEN [body EXCEPT !.raises = FALSE] ELSE body

NoResolution ==
    [called |-> FALSE,
     reads |-> [setup |-> 0, denominator |-> 0, numerator0 |-> 0,
                numerator1 |-> 0],
     returned |-> [raises |-> FALSE, resolved |-> FALSE, numerators |-> << >>,
                   calls |-> 0]]

CheckResolved(r) ==
    /\ resolution' = [called |-> TRUE, reads |-> r, returned |-> Resolution(r)]
    /\ UNCHANGED <<polled, sweepVars, orphanVars>>
    /\ UNCHANGED notExtra2

\* ------------------------------------------------------- the claim sweep --
\* _claim_sweep from db.get_positions() to the end of the batch branch; the
\* orphan discovery that follows is a call of its own.

\* The positions table at the start: one row per market, any condition id.
SweepTables ==
    {{[market_id |-> mk, condition_id |-> f[mk]] : mk \in Markets} :
        f \in [Markets -> Cids]}

\* cid_to_positions: the condition ids of the rows, those in
\* _redeemed_conditions left out
SweepCandidates(rows, redeemed) ==
    {r.condition_id : r \in rows} \ redeemed

\* A slip that would take every resolved id for claimed.
ClaimedCids_AllResolved(res, cids) == Range(cids)

\* The ids whose positions the sweep removes: result["redeemed"] when the
\* result reports success (every success dict carries the key), none
\* otherwise.
ClaimedCids(res, cids) == IF res.success THEN Range(res.redeemed) ELSE {}

\* The sweep reads the table and checks each candidate on-chain; `resolved`
\* are the ids check_resolved returns numerators for.  With no resolved id
\* batch_redeem is not called.
SweepCheck(resolved) ==
    /\ sweep_pc = "idle"
    /\ configured
    /\ result = NoResult
    /\ batch = << >>
    /\ LET cids == SortedSeq(SweepCandidates(sweep_rows, redeemed_conditions)
                                \cap resolved)
       IN  /\ resolved_cids' = cids
           /\ sweep_pc' = IF cids = << >> THEN "idle" ELSE "checked"
    /\ UNCHANGED <<sweep_rows, open_positions>>
    /\ UNCHANGED <<envVars, redeemAll>>
    /\ UNCHANGED notSweep

\* result = await self.redeemer.batch_redeem(resolved_cids), up to the
\* return of client.execute
SweepRedeem(sub) ==
    /\ sweep_pc = "checked"
    /\ BatchRedeem(resolved_cids, sub)

\* The sweep takes the dict batch_redeem returned and removes the positions
\* of the claimed ids, each from the table and from the executor's ledger.
\* `done` positions are removed before a database call raises (all of them
\* when none does).
SweepFinish(done) ==
    /\ sweep_pc = "checked"
    /\ result /= NoResult
    /\ LET claimed == ClaimedCids(result, resolved_cids)
           todo == {r \in sweep_rows :
                      /\ r.condition_id \in claimed
                      /\ r.condition_id \in Range(resolved_cids)}
       IN  /\ done \subseteq todo
           /\ sweep_rows' = sweep_rows \ done
           /\ open_positions' =
                 [mk \in DOMAIN open_positions \ {r.market_id : r \in done}
                     |-> open_positions[mk]]
    /\ sweep_pc' = "idle"
    /\ resolved_cids' = << >>
    /\ result' = NoResult
    /\ last' = NoCall
    /\ UNCHANGED <<envVars, redeemVars, prevCall, everSubmitted, restarts>>
    /\ UNCHANGED notSweep

\* --------------------------------------------------- orphan discovery --
\* discover_and_redeem_orphans: the funder wallet's positions index is read,
\* filtered to orphans, de-duplicated and capped; each candidate is checked
\* on-chain and the resolved ones go to batch_redeem as one batch.

\* The condition ids a wallet can hold: one more than a sweep checks.
OrphanIds == 1..(DISCOVERY_MAX_PER_SWEEP + 1)

IndexPosition(cid, size) == [conditionId |-> cid, size |-> size]

\* The positions the index returns, in its order: an entry without a
\* conditionId (0), optionally a second position of condition 3 ahead of the
\* rest, then one position per id, those in `dust` of size 0.5.
WalletIndex(dust, twice) ==
    <<IndexPosition(0, 4000)>>
    \o (IF twice THEN <<IndexPosition(3, 4000)>> ELSE << >>)
    \o [c \in OrphanIds |->
           IndexPosition(c, IF c \in dust THEN DUST_SIZE ELSE 4000)]

WalletIndexes == {WalletIndex(dust, twice) : dust \in SUBSET {1, 2},
                                             twice \in BOOLEAN}

OrphanEnvs ==
    [positions : WalletIndexes, known : {{}, {2}}, resolved : SUBSET OrphanIds]

NoOrphanEnv == [positions |-> << >>, known |-> {}, resolved |-> {}]

\* cid and size > 0.5 and cid not in known_condition_ids
\*     and cid not in self._redeemed_conditions
IsOrphan(p, known, redeemed) ==
    /\ p.conditionId /= 0
    /\ p.size > DUST_SIZE
    /\ p.conditionId \notin known
    /\ p.conditionId \notin redeemed

\* list(dict.fromkeys(xs)): the first occurrence of each element, in the
\* order of the first occurrences
Dedup(xs) ==
    LET first == {i \in DOMAIN xs : \A j \in 1..(i - 1) : xs[j] /= xs[i]}
    IN  [k \in 1..Cardinality(first) |->
            xs[CHOOSE i \in first : Cardinality({j \in first : j < i}) = k - 1]]

\* A slip that would check every candidate.
CapPerSweep_Uncapped(xs) == xs

\* xs[:DISCOVERY_MAX_PER_SWEEP]
CapPerSweep(xs) == SubSeq(xs, 1, Min(Len(xs), DISCOVERY_MAX_PER_SWEEP))

\* orphan_cids as the resolution checks see it
OrphanCids(positions, known, redeemed) ==
    LET Test(p) == IsOrphan(p, known, redeemed)
        found == SelectSeq(positions, Test)
    IN  CapPerSweep(Dedup([i \in 1..Len(found) |-> found[i].conditionId]))

\* The call up to the capped candidate list.  It returns [] when the service
\* is not configured, when the fetch raises (`fetched` false) and when no
\* position is an orphan.
DiscoverFetch(fetched) ==
    /\ sweep_pc = "idle"
    /\ result = NoResult
    /\ batch = << >>
    /\ LET cids == IF configured /\ fetched
                      THEN OrphanCids(orphan_env.positions, orphan_env.known,
                                      redeemed_conditions)
                      ELSE << >>
       IN  /\ orphan_cids' = cids
           /\ sweep_pc' = IF cids = << >> THEN "done" ELSE "orphans"
    /\ resolved_cids' = << >>
    /\ UNCHANGED <<envVars, redeemAll>>
    /\ UNCHANGED notDiscover

\* The check_resolved loop: a candidate is kept when its condition is
\* resolved and the on-chain reads succeed (`reads_ok`).  With no resolved
\* candidate the call returns [].
DiscoverCheck(reads_ok) ==
    /\ sweep_pc = "orphans"
    /\ LET Resolved(c) == reads_ok /\ c \in orphan_env.resolved
           resolved_orphans == SelectSeq(orphan_cids, Resolved)
       IN  /\ resolved_cids' = resolved_orphans
           /\ sweep_pc' = IF resolved_orphans = << >>
                             THEN "done" ELSE "orphans_checked"
    /\ UNCHANGED orphan_cids
    /\ UNCHANGED <<envVars, redeemAll>>
    /\ UNCHANGED notDiscover

\* result = await self.batch_redeem(resolved_orphans), up to the return of
\* client.execute
DiscoverRedeem(sub) ==
    /\ sweep_pc = "orphans_checked"
    /\ BatchRedeem(resolved_cids, sub)

\* The call takes the dict batch_redeem returned and returns.
DiscoverReturn ==
    /\ sweep_pc = "orphans_checked"
    /\ result /= NoResult
    /\ sweep_pc' = "done"
    /\ result' = NoResult
    /\ last' = NoCall
    /\ UNCHANGED <<resolved_cids, orphan_cids>>
    /\ UNCHANGED <<envVars, redeemVars, prevCall, everSubmitted, restarts>>
    /\ UNCHANGED notDiscover

\* The run loop polls on until the next sweep is due, no less than
\* MIN_REDEEM_INTERVAL later.
SweepPause(d) ==
    /\ sweep_pc = "done"
    /\ d >= MIN_REDEEM_INTERVAL
    /\ now' = IF now + d <= MaxTime THEN now + d ELSE now
    /\ sweep_pc' = "idle"
    /\ resolved_cids' = << >>
    /\ orphan_cids' = << >>
    /\ UNCHANGED <<utcDate, redeemAll>>
    /\ UNCHANGED notDiscover

InitOrphanIdle ==
    /\ orphan_env = NoOrphanEnv
    /\ orphan_cids = << >>

InitSweepIdle ==
    /\ sweep_pc = "idle"
    /\ sweep_rows = {}
    /\ resolved_cids = << >>

InitExtraBase ==
    /\ eps = NoComparison
    /\ position_items = {}
    /\ position_rows = {}
    /\ ledger_obs = NoLedgerObs
    /\ realized_today = 0
    /\ polled = NoPoll
    /\ resolution = NoResolution
    /\ handled = NoHandled

\* No wallet followed yet.
InitFeedIdle ==
    /\ self_addresses = << >>
    /\ first_held = << >>
    /\ pending = {}
    /\ unshared = {}
    /\ trader_rows = {}
    /\ max_traders = DEFAULT_MAX_TRADERS

InitExtra ==
    /\ InitSweepIdle
    /\ InitOrphanIdle
    /\ InitExtraBase
    /\ InitFeedIdle

\* ==================================================== BotRunner._run_loop ==

\* The attributes Position.__init__ sets.
PositionAttributes ==
    {"market_id", "token_id", "outcome", "size", "price", "trader"}

\* `pos.condition_id` raises AttributeError unless the object has the attribute.
ReadRaises(attribute) == attribute \notin PositionAttributes

\* The address list of the loop, and the price every fetched position carries.
LoopAddresses == <<1>>

SnapshotPrice == 500

NoTick == [called |-> FALSE, new |-> {}, closed |-> {}, adjusted |-> {},
           executed |-> {}, upserted |-> {}, deleted |-> {}, raised |-> FALSE]

EventKey(pos) == <<pos.trader, pos.market_id>>

Keys(list) == {EventKey(list[i]) : i \in DOMAIN list}

Tagged(kind, list) == [i \in DOMAIN list |-> [kind |-> kind, pos |-> list[i]]]

\* The Position the executor is handed.
ExecutorInput(pos) ==
    [market_id |-> pos.market_id, size |-> pos.size, price |-> SnapshotPrice,
     has_token |-> TRUE]

\* executor.open_position / close_position / adjust_position on the state
\* threaded through a tick.
ExecutorStep(cfg, day, st, op) ==
    LET p == ExecutorInput(op.pos)
        pnl == PnlAfterReset(st.daily_pnl, day, st.last_reset_date)
        size == SizeFor(cfg, Cardinality(DOMAIN st.open_positions), pnl, p.size)
    IN  CASE op.kind = "new" ->
               [st EXCEPT !.open_positions =
                              LedgerAfterOpen(cfg, @, size, p, "accepted"),
                          !.daily_pnl = pnl, !.last_reset_date = day]
          [] op.kind = "adjusted" ->
               [st EXCEPT !.open_positions = LedgerAfterAdjust(cfg, @, size, p),
                          !.daily_pnl = pnl, !.last_reset_date = day]
          [] OTHER ->
               IF p.market_id \in DOMAIN st.open_positions
                  THEN [st EXCEPT
                           !.open_positions = Drop(@, p.market_id),
                           !.daily_pnl =
                               @ + RealizedPnl(st.open_positions[p.market_id],
                                               p.price)]
                  ELSE st

\* The three for-loops of a tick over the events, in order, up to the first
\* exception.  write_ok: the database takes the writes of this tick.
RECURSIVE RouteFrom(_, _, _, _, _)
RouteFrom(ops, cfg, day, st, write_ok) ==
    IF ops = << >> THEN st
    ELSE LET op == Head(ops)
             key == EventKey(op.pos)
             st1 == [ExecutorStep(cfg, day, st, op)
                        EXCEPT !.executed = @ \cup {<<op.kind, key>>}]
         IN  IF op.kind \in {"new", "adjusted"} /\ ReadRaises("condition_id")
                THEN [st1 EXCEPT !.raised = TRUE]
             ELSE IF ~write_ok
                THEN [st1 EXCEPT !.raised = TRUE]
             ELSE IF op.kind = "closed"
                THEN RouteFrom(Tail(ops), cfg, day,
                         [st1 EXCEPT !.persisted = @ \ {op.pos.market_id},
                                     !.deleted = @ \cup {key}], write_ok)
                ELSE RouteFrom(Tail(ops), cfg, day,
                         [st1 EXCEPT !.persisted = @ \cup {op.pos.market_id},
                                     !.upserted = @ \cup {key}], write_ok)

\* The baseline scan: detect_changes once, the events discarded.
BaselineScan(fetched) ==
    /\ loop_pc = "baseline"
    /\ known_positions' =
          DetectFrom(LoopAddresses, fetched, known_positions,
                     [new |-> << >>, closed |-> << >>, adjusted |-> << >>]).known
    /\ loop_pc' = "sleep"
    /\ UNCHANGED <<loop_end, stop_requested, poll_count, persisted, tick, diff>>
    /\ UNCHANGED <<envVars, redeemAll, today, execAll, lifeAll, extraAll>>

\* One tick, from the end of the sleep to the end of the try block or of the
\* except handler's log_activity.  log_ok: the handler's own log_activity
\* returns.  The ticks modelled are those in which neither the claim sweep
\* (every 360 polls) nor the trader refresh (every 720) is due.
Tick(fetched, write_ok, log_ok) ==
    /\ loop_pc = "sleep"
    /\ poll_count < MaxPolls
    /\ (poll_count + 1) % CLAIM_SWEEP_INTERVAL /= 0
    /\ poll_count' = poll_count + 1
    /\ LET r == DetectFrom(LoopAddresses, fetched, known_positions,
                           [new |-> << >>, closed |-> << >>, adjusted |-> << >>])
           ops == Tagged("new", r.out.new) \o Tagged("closed", r.out.closed)
                     \o Tagged("adjusted", r.out.adjusted)
           st == RouteFrom(ops, config, today,
                     [open_positions |-> open_positions, daily_pnl |-> daily_pnl,
                      last_reset_date |-> last_reset_date,
                      persisted |-> persisted, executed |-> {},
                      upserted |-> {}, deleted |-> {}, raised |-> FALSE],
                     write_ok)
       IN  /\ known_positions' = r.known
           /\ open_positions' = st.open_positions
           /\ daily_pnl' = st.daily_pnl
           /\ last_reset_date' = st.last_reset_date
           /\ tripped' = TrippedAfter(st.daily_pnl)
           /\ persisted' = st.persisted
           /\ tick' = [called |-> TRUE, new |-> Keys(r.out.new),
                       closed |-> Keys(r.out.closed),
                       adjusted |-> Keys(r.out.adjusted),
                       executed |-> st.executed, upserted |-> st.upserted,
                       deleted |-> st.deleted, raised |-> st.raised]
           /\ loop_pc' = IF ~st.raised THEN "ticked"
                         ELSE IF log_ok THEN "errsleep" ELSE "done"
           /\ loop_end' = IF st.raised /\ ~log_ok THEN "crashed" ELSE loop_end
    /\ UNCHANGED <<stop_requested, diff, config, calc>>
    /\ UNCHANGED <<envVars, redeemAll, today, lifeAll, extraAll>>

\* Back to the top of the while loop: directly, or after the handler's
\* sleep(5).
LoopBack ==
    /\ loop_pc \in {"ticked", "errsleep"}
    /\ loop_pc' = "sleep"
    /\ tick' = NoTick
    /\ UNCHANGED <<loop_end, stop_requested, poll_count, persisted>>
    /\ UNCHANGED notLoop

\* stop() while the task is suspended: _running goes False, the task is
\* cancelled and ends.
LoopStop ==
    /\ loop_pc \in {"baseline", "sleep", "errsleep"}
    /\ stop_requested' = TRUE
    /\ loop_pc' = "done"
    /\ loop_end' = "cancelled"
    /\ tick' = NoTick
    /\ UNCHANGED <<poll_count, persisted>>
    /\ UNCHANGED notLoop

InitLoop ==
    /\ loop_pc = "baseline"
    /\ loop_end = "none"
    /\ stop_requested = FALSE
    /\ poll_count = 0
    /\ persisted = {}
    /\ tick = NoTick

\* ------------------------------------------- the loop over self.addresses --
\* The same loop with the address list as state, the trader refresh, the
\* claim sweep, and the wallets' real holdings next to what the data API
\* answers for them.

\* refresh_interval of _run_loop
REFRESH_INTERVAL == 720

\* fetch_traders and get_trader_addresses: the addresses of the first
\* max_traders records of the API's answer; 0 is a record without address.
GetTraderAddresses(answer, limit) ==
    SelectSeq(SubSeq(answer, 1, Min(limit, Len(answer))), LAMBDA a : a /= 0)

\* db.add_trader for each address: one row per address, the source of an
\* existing row overwritten.
RowsAfterAdd(rows, addrs, source) ==
    {r \in rows : r.address \notin Range(addrs)}
        \cup {[address |-> a, source |-> source] : a \in Range(addrs)}

\* start(): [t["address"] for t in traders], the active rows of the table
\* (the order of the rows is not modelled)
LoadedAddresses(rows) == SortedSeq({r.address : r \in rows})

\* The sizes a followed wallet holds of a market.
FollowedSizes == {10030, 10050}

\* What a wallet can hold.
Holdings == UNION {[D -> FollowedSizes] : D \in SUBSET WatchedMarkets}

\* What get_trader_addresses can return at a refresh; the empty list also
\* stands for a failed request and for a runner without API key.
RefreshAnswers == AddressLists \cup {<< >>}

\* self.addresses after the refresh block of a tick
AddressesAfterRefresh(addrs, count, refreshed) ==
    IF count % REFRESH_INTERVAL = 0 /\ refreshed /= << >>
       THEN refreshed ELSE addrs

\* fetch_positions for each polled wallet: its holdings when the request of
\* the wallet succeeds (ok), {} when it fails.
FetchedFrom(addrs, held, ok) ==
    [a \in Range(addrs) |->
        FetchPositions([kind |-> IF a \in ok THEN "ok" ELSE "raise",
                        data |-> held[a]])]

\* The markets each wallet has held without a break since before its first
\* poll, after a poll of addrs that found the wallets holding `held`.
FirstHeldAfter(fh, addrs, held) ==
    [a \in DOMAIN fh \cup Range(addrs) |->
        IF a \notin Range(addrs) THEN fh[a]
        ELSE IF a \in DOMAIN fh THEN fh[a] \cap DOMAIN held[a]
        ELSE DOMAIN held[a]]

\* The events, as <<kind, <<trader, market>>>>, of the lists detect_changes
\* returned.
EmittedEvents(out) ==
    {<<"new", k>> : k \in Keys(out.new)}
        \cup {<<"closed", k>> : k \in Keys(out.closed)}
        \cup {<<"adjusted", k>> : k \in Keys(out.adjusted)}

\* if self.redeemer and self.redeemer.is_configured
\*    and self.poll_count % CLAIM_SWEEP_INTERVAL == 0 and self.poll_count > 0
SweepDue(count, is_configured) ==
    is_configured /\ count % CLAIM_SWEEP_INTERVAL = 0 /\ count > 0

\* The wallets other than the closing one that hold the market of an
\* executed closed event whose entry the ledger had, with the size held.
\* A wallet counts when its snapshot after the poll still has the market
\* and it holds the size its snapshot had before the poll.
UnsharedBy(ledger, executed, before, known, held) ==
    UNION {{<<k[2][2], b, held[b][k[2][2]]>> :
               b \in {w \in DOMAIN known \cap DOMAIN held \cap DOMAIN before :
                        /\ w /= k[2][1]
                        /\ k[2][2] \in DOMAIN known[w]
                        /\ k[2][2] \in DOMAIN held[w]
                        /\ k[2][2] \in DOMAIN before[w]
                        /\ before[w][k[2][2]] = held[w][k[2][2]]}} :
           k \in {e \in executed :
                    e[1] = "closed" /\ e[2][2] \in DOMAIN ledger}}

\* Those of `unshared` whose wallet still holds the size and whose market
\* had no ledger entry when the tick began.
StillUnshared(set, ledger, held) ==
    {u \in set : /\ u[1] \notin DOMAIN ledger
                 /\ u[2] \in DOMAIN held
                 /\ u[1] \in DOMAIN held[u[2]]
                 /\ held[u[2]][u[1]] = u[3]}

\* The baseline scan over self.addresses: detect_changes once, the events
\* discarded.  held: what the wallets hold; ok: the wallets whose request
\* succeeds.
Baseline(held, ok) ==
    /\ loop_pc = "baseline"
    /\ known_positions' =
          DetectFrom(self_addresses, FetchedFrom(self_addresses, held, ok),
                     known_positions,
                     [new |-> << >>, closed |-> << >>, adjusted |-> << >>]).known
    /\ first_held' = FirstHeldAfter(first_held, self_addresses, held)
    /\ loop_pc' = "sleep"
    /\ UNCHANGED <<loop_end, stop_requested, poll_count, persisted, tick, diff>>
    /\ UNCHANGED <<self_addresses, pending, unshared, trader_rows, max_traders>>
    /\ UNCHANGED <<envVars, redeemAll, today, execAll, lifeAll, extra1All,
                   extra2All, handled>>

\* One tick over self.addresses, from the end of the sleep to the claim
\* sweep's call, to the end of the try block, or to the end of the except
\* handler's log_activity.  refreshed: what get_trader_addresses returns if
\* the refresh is due.
\* addrs: self.addresses after the refresh block; r: what detect_changes
\* returns and stores; st: the ledgers after the three loops over the events.
RunTick(held, ok, refreshed, write_ok, log_ok) ==
    /\ loop_pc = "sleep"
    /\ poll_count' = poll_count + 1
    /\ \E addrs \in {AddressesAfterRefresh(self_addresses, poll_count + 1,
                        GetTraderAddresses(refreshed, max_traders))} :
       \E r \in {DetectFrom(addrs, FetchedFrom(addrs, held, ok),
                             known_positions,
                             [new |-> << >>, closed |-> << >>,
                              adjusted |-> << >>])} :
       \E st \in {RouteFrom(Tagged("new", r.out.new)
                                \o Tagged("closed", r.out.closed)
                                \o Tagged("adjusted", r.out.adjusted),
                            config, today,
                            [open_positions |-> open_positions,
                             daily_pnl |-> daily_pnl,
                             last_reset_date |-> last_reset_date,
                             persisted |-> persisted, executed |-> {},
                             upserted |-> {}, deleted |-> {},
                             raised |-> FALSE],
                            write_ok)} :
       LET count == poll_count + 1
           sweep == ~st.raised /\ SweepDue(count, configured)
           polled_held == [a \in Range(addrs) |-> held[a]]
           first_before == FirstHeldAfter(first_held, addrs, polled_held)
       IN  /\ self_addresses' = addrs
           /\ known_positions' = r.known
           /\ open_positions' = st.open_positions
           /\ daily_pnl' = st.daily_pnl
           /\ last_reset_date' = st.last_reset_date
           /\ tripped' = TrippedAfter(st.daily_pnl)
           /\ persisted' = st.persisted
           /\ first_held' = first_before
           /\ trader_rows' =
                 IF count % REFRESH_INTERVAL = 0
                       /\ GetTraderAddresses(refreshed, max_traders) /= << >>
                    THEN RowsAfterAdd(trader_rows, addrs, "api")
                    ELSE trader_rows
           /\ pending' = (pending \cup EmittedEvents(r.out)) \ st.executed
           /\ unshared' =
                 StillUnshared(unshared, open_positions, polled_held)
                    \cup UnsharedBy(open_positions, st.executed,
                                    known_positions, r.known, polled_held)
           /\ tick' = [called |-> TRUE, new |-> Keys(r.out.new),
                       closed |-> Keys(r.out.closed),
                       adjusted |-> Keys(r.out.adjusted),
                       executed |-> st.executed, upserted |-> st.upserted,
                       deleted |-> st.deleted, raised |-> st.raised,
                       count |-> count, addresses |-> addrs,
                       before |-> known_positions, held |-> polled_held,
                       ok |-> ok \cap Range(addrs),
                       ledger |-> open_positions,
                       is_configured |-> configured, swept |-> FALSE,
                       opened_held |->
                          {e[2] : e \in {x \in st.executed :
                                           /\ x[1] = "new"
                                           /\ x[2][2] \in first_before[x[2][1]]}}]
           /\ loop_pc' = IF sweep THEN "sweep"
                         ELSE IF ~st.raised THEN "ticked"
                         ELSE IF log_ok THEN "errsleep" ELSE "done"
           /\ loop_end' = IF st.raised /\ ~log_ok THEN "crashed" ELSE loop_end
    /\ UNCHANGED <<stop_requested, diff, config, calc, max_traders>>
    /\ UNCHANGED <<envVars, redeemAll, today, lifeAll, extra1All, extra2All,
                   handled>>

\* await self._claim_sweep(), in a deployment where no row of the positions
\* table carries a condition id and the funder wallet has no orphan: the
\* sweep reads, finds nothing to check and returns.
ClaimSweep ==
    /\ loop_pc = "sweep"
    /\ SweepCandidates(sweep_rows, redeemed_conditions) = {}
    /\ tick' = [tick EXCEPT !.swept = TRUE]
    /\ loop_pc' = "ticked"
    /\ UNCHANGED <<loop_end, stop_requested, poll_count, persisted>>
    /\ UNCHANGED notLoop

\* The loop reads poll_count only modulo CLAIM_SWEEP_INTERVAL and
\* REFRESH_INTERVAL and against 0: a count above REFRESH_INTERVAL is kept
\* as the count one interval below it, which the loop cannot tell from it.
CountFolded ==
    /\ loop_pc = "sleep"
    /\ poll_count > REFRESH_INTERVAL
    /\ poll_count' = poll_count - REFRESH_INTERVAL
    /\ UNCHANGED <<loop_pc, loop_end, stop_requested, persisted, tick>>
    /\ UNCHANGED notLoop

\* The ticks up to the one before a sweep or a refresh is due, in which
\* every wallet's fetch answers the snapshot stored: no event, no write.
QuietTicks ==
    /\ loop_pc = "sleep"
    /\ (poll_count + 1) % CLAIM_SWEEP_INTERVAL /= 0
    /\ poll_count' =
          poll_count + (CLAIM_SWEEP_INTERVAL - 1)
             - (poll_count % CLAIM_SWEEP_INTERVAL)
    /\ UNCHANGED <<loop_pc, loop_end, stop_requested, persisted, tick>>
    /\ UNCHANGED notLoop

\* ------------------------------------------------- the list start() builds --

\* The traders the table and the discovery API can name.
TraderIds == 1..NumTraders

\* What the discovery API answers: up to NumTraders records of different
\* traders, the empty list also standing for a failed request.
ApiAnswers ==
    {<< >>} \cup
    UNION {{f \in [1..n -> TraderIds] :
               \A i, j \in 1..n : i /= j => f[i] /= f[j]} : n \in 1..NumTraders}

\* POST /api/traders: a trader added by hand.
AddTrader(a) ==
    /\ trader_rows' = RowsAfterAdd(trader_rows, <<a>>, "manual")
    /\ UNCHANGED <<self_addresses, first_held, pending, unshared, max_traders>>
    /\ UNCHANGED <<coreAll, extra1All, extra2All, handled>>

\* start() on a stopped runner.  The list is the table's; with an empty
\* table and an API key it is what get_trader_addresses returns, and those
\* addresses are added to the table.  Without addresses nothing is started;
\* otherwise the loop's task is created on a new monitor, executor and
\* redeemer.
StartRunner(answer, has_key) ==
    /\ loop_pc \in {"stopped", "done"}
    /\ \E loaded \in {LoadedAddresses(trader_rows)} :
       \E addrs \in {IF loaded /= << >> THEN loaded
                     ELSE IF has_key
                        THEN GetTraderAddresses(answer, max_traders)
                        ELSE << >>} :
          /\ self_addresses' = addrs
          /\ trader_rows' =
                IF loaded = << >> /\ has_key
                   THEN RowsAfterAdd(trader_rows, addrs, "api")
                   ELSE trader_rows
          /\ IF loaded = << >> /\ ~has_key
                THEN UNCHANGED <<known_positions, open_positions, daily_pnl,
                                 last_reset_date, redeemVars, result, last,
                                 prevCall>>
                ELSE /\ known_positions' = << >>
                     /\ open_positions' = << >>
                     /\ daily_pnl' = 0
                     /\ last_reset_date' = today
                     /\ daily_tx_count' = 0
                     /\ daily_tx_date' = 0
                     /\ quota_reset_at' = 0
                     /\ last_redeem_time' = 0
                     /\ redeemed_conditions' = {}
                     /\ batch' = << >>
                     /\ result' = NoResult
                     /\ prevCall' = NoPrev
                     /\ last' = NoCall
                     /\ UNCHANGED configured
          /\ IF addrs = << >>
                THEN UNCHANGED <<loop_pc, loop_end, stop_requested, poll_count,
                                 first_held, pending, unshared>>
                ELSE /\ loop_pc' = "baseline"
                     /\ loop_end' = "none"
                     /\ stop_requested' = FALSE
                     /\ poll_count' = 0
                     /\ first_held' = << >>
                     /\ pending' = {}
                     /\ unshared' = {}
    /\ tick' = NoTick
    /\ UNCHANGED <<envVars, everSubmitted, restarts, today, config, execObs, diff,
                   persisted, lifeAll, extra1All, extra2All, handled,
                   max_traders>>

\* ==================================================== BotRunner lifecycle ==

Requests == 1..MaxRequests

\* Every start() that gets that far makes one task and one WalletMonitor.
TaskIds == 1..MaxRequests

NoRequest == [kind |-> "none", pc |-> "idle", result |-> "", awaited |-> 0]

NoTask == [pc |-> "unborn", cancel |-> FALSE]

\* A task that exists and is not done.
Alive(t) == tasks[t].pc \in {"created", "in_thread", "sleep"}

\* BotRunner.status
Status ==
    IF running /\ task /= 0 /\ tasks[task].pc /= "done"
       THEN "running" ELSE "stopped"

\* The id of the next object made.
NextId(used) == CHOOSE i \in TaskIds : i \notin used /\ \A j \in TaskIds : j < i => j \in used

\* A request arrives and calls start(): the status check, then the await of
\* Config.from_db.
StartCall(r) ==
    /\ req[r].kind = "none"
    /\ \A q \in Requests : q < r => req[q].kind /= "none"
    /\ req' = [req EXCEPT ![r] =
                 IF Status = "running"
                    THEN [kind |-> "start", pc |-> "returned",
                          result |-> "already running", awaited |-> 0]
                    ELSE [kind |-> "start", pc |-> "loading", result |-> "",
                          awaited |-> 0]]
    /\ UNCHANGED <<running, task, tasks, thread, monitor, closed>>
    /\ UNCHANGED notLife

\* start(), from the return of db.get_traders to the await of log_activity:
\* the new ApiClient, WalletMonitor, TradeExecutor and RedemptionService,
\* _running = True.
StartBuild(r) ==
    /\ req[r].kind = "start" /\ req[r].pc = "loading"
    /\ monitor' = monitor + 1
    /\ running' = TRUE
    /\ req' = [req EXCEPT ![r].pc = "logging"]
    /\ UNCHANGED <<task, tasks, thread, closed>>
    /\ UNCHANGED notLife

\* start(), the end: asyncio.create_task(self._run_loop()).
StartSpawn(r) ==
    /\ req[r].kind = "start" /\ req[r].pc = "logging"
    /\ LET t == NextId({u \in TaskIds : tasks[u].pc /= "unborn"})
       IN  /\ tasks' = [tasks EXCEPT ![t] = [pc |-> "created", cancel |-> FALSE]]
           /\ task' = t
    /\ req' = [req EXCEPT ![r].pc = "returned", ![r].result = "started"]
    /\ UNCHANGED <<running, thread, monitor, closed>>
    /\ UNCHANGED notLife

\* A request arrives and calls stop(): the status check, _running = False,
\* task.cancel(), then the await of the task.
StopCall(r) ==
    /\ req[r].kind = "none"
    /\ \A q \in Requests : q < r => req[q].kind /= "none"
    /\ IF Status /= "running"
          THEN /\ req' = [req EXCEPT ![r] =
                            [kind |-> "stop", pc |-> "returned",
                             result |-> "not running", awaited |-> 0]]
               /\ UNCHANGED <<running, tasks>>
          ELSE /\ running' = FALSE
               /\ tasks' = [tasks EXCEPT ![task].cancel = TRUE]
               /\ req' = [req EXCEPT ![r] =
                            [kind |-> "stop", pc |-> "joining", result |-> "",
                             awaited |-> task]]
    /\ UNCHANGED <<task, thread, monitor, closed>>
    /\ UNCHANGED notLife

\* stop(), once the awaited task is done: self._task = None, then the await
\* of log_activity.
StopJoined(r) ==
    /\ req[r].kind = "stop" /\ req[r].pc = "joining"
    /\ tasks[req[r].awaited].pc = "done"
    /\ task' = 0
    /\ req' = [req EXCEPT ![r].pc = "closing"]
    /\ UNCHANGED <<running, tasks, thread, monitor, closed>>
    /\ UNCHANGED notLife

\* stop(), the end: self.api.close(), self.monitor.close().
StopClose(r) ==
    /\ req[r].kind = "stop" /\ req[r].pc = "closing"
    /\ closed' = closed \cup {monitor}
    /\ req' = [req EXCEPT ![r].pc = "returned", ![r].result = "stopped"]
    /\ UNCHANGED <<running, task, tasks, thread, monitor>>
    /\ UNCHANGED notLife

\* _run_loop reaches asyncio.to_thread(self.monitor.detect_changes, ...): for
\* the baseline scan when the task first runs, after the sleep in a tick.  A
\* task that finds _running False at the top of the loop ends.
TaskPoll(t) ==
    /\ tasks[t].pc \in {"created", "sleep"}
    /\ ~tasks[t].cancel
    /\ IF tasks[t].pc = "sleep" /\ ~running
          THEN /\ tasks' = [tasks EXCEPT ![t].pc = "done"]
               /\ UNCHANGED thread
          ELSE /\ tasks' = [tasks EXCEPT ![t].pc = "in_thread"]
               /\ thread' = [thread EXCEPT ![t] = monitor]
    /\ UNCHANGED <<running, task, monitor, closed, req>>
    /\ UNCHANGED notLife

\* The worker thread returns from detect_changes, having fetched through the
\* monitor's client and assigned known_positions.  A task still awaiting it
\* goes on to route the events and to sleep.
ThreadDone(t) ==
    /\ thread[t] /= 0
    /\ thread' = [thread EXCEPT ![t] = 0]
    /\ tasks' = [tasks EXCEPT ![t].pc =
                    IF @ = "in_thread" /\ ~tasks[t].cancel THEN "sleep" ELSE @]
    /\ UNCHANGED <<running, task, monitor, closed, req>>
    /\ UNCHANGED notLife

\* The cancelled task gets CancelledError at its await and ends; a worker
\* thread it was awaiting is not interrupted.
TaskCancelled(t) ==
    /\ Alive(t)
    /\ tasks[t].cancel
    /\ tasks' = [tasks EXCEPT ![t].pc = "done"]
    /\ UNCHANGED <<running, task, thread, monitor, closed, req>>
    /\ UNCHANGED notLife

InitLife ==
    /\ running = FALSE
    /\ task = 0
    /\ tasks = [t \in TaskIds |-> NoTask]
    /\ thread = [t \in TaskIds |-> 0]
    /\ monitor = 0
    /\ closed = {}
    /\ req = [r \in Requests |-> NoRequest]

\* ========================================================= specifications ==

\* The settlement service under arbitrary calls, clock and restarts.
InitOthers ==
    /\ InitEnv /\ InitRedeem /\ InitExec /\ InitMon /\ InitLoop /\ InitLife
    /\ InitExtra

Init == InitOthers /\ config = DefaultConfig

NextRedeem ==
    \/ \E ids \in BatchInputs, sub \in SubmitOutcomes : BatchRedeem(ids, sub)
    \/ \E p \in PollOutcomes : BatchRedeemPoll(p)
    \/ \E cfgd \in BOOLEAN : NewService(cfgd)
    \/ \E d \in ClockSteps : AdvanceClock(d)
    \/ UtcMidnight
    \/ ReturnToCaller

Next == NextRedeem

Spec == Init /\ [][Next]_vars

\* The executor under arbitrary events, configurations and date changes.
InitExecutor == InitOthers /\ config \in ExecConfigs

NextExec ==
    \/ \E pos \in PositionInputs : CalculateSize(pos)
    \/ \E pos \in PositionInputs, o \in OrderOutcomes : OpenPosition(pos, o)
    \/ \E pos \in PositionInputs : ClosePosition(pos)
    \/ \E pos \in PositionInputs, o \in OrderOutcomes : AdjustPosition(pos, o)
    \/ ExecReturn
    \/ LocalMidnight
    \/ ExecUtcMidnight

NextExecutor == NextExec

SpecExecutor == InitExecutor /\ [][NextExecutor]_vars

\* --- the executor with fewer concurrent positions allowed than markets ---
TightConfigs ==
    {[cfg EXCEPT !.max_concurrent_positions = NumMarkets - 1] : cfg \in ExecConfigs}

InitConcurrent == InitOthers /\ config \in TightConfigs

SpecConcurrent == InitConcurrent /\ [][NextExec]_vars

\* --- the executor's calls on record, paper and live ----------------------
\* The default configuration, in paper and in live mode.
InitHandled ==
    InitOthers /\ config \in {cfg \in ExecConfigs : cfg.account_balance_usd = 0}

NextHandled ==
    \/ \E pos \in HandledInputs, o \in OrderOutcomes : OpenRecorded(pos, o)
    \/ \E pos \in HandledInputs, o \in OrderOutcomes : AdjustRecorded(pos, o)
    \/ \E pos \in HandledInputs, o \in OrderOutcomes : CloseRecorded(pos, o)
    \/ HandledReturn

SpecHandled == InitHandled /\ [][NextHandled]_vars

\* The differ under arbitrary address lists and fetched snapshots.
InitMonitor == InitOthers /\ config = DefaultConfig

NextMonitor ==
    \/ \E addresses \in AddressLists :
          \E fetched \in [Range(addresses) -> Snapshots] :
             DetectChanges(addresses, fetched)
    \/ DiffReturn

SpecMonitor == InitMonitor /\ [][NextMonitor]_vars

\* A runner started on the address list addrs, before its baseline scan.
InitFollowing(addrs) ==
    /\ InitEnv /\ InitRedeem /\ InitExec /\ InitMon /\ InitLoop /\ InitLife
    /\ InitSweepIdle /\ InitOrphanIdle /\ InitExtraBase
    /\ config = DefaultConfig
    /\ self_addresses = addrs
    /\ first_held = << >>
    /\ pending = {}
    /\ unshared = {}
    /\ trader_rows = {}
    /\ max_traders = DEFAULT_MAX_TRADERS

\* The loop following two wallets that trade the same markets, in the ticks
\* before the first sweep and refresh.
InitShared == InitFollowing(<<1, 2>>)

\* Holdings of the one market both wallets trade.
SharedHoldings == {h \in Holdings : DOMAIN h \subseteq {1}}

NextShared ==
    \/ \E held \in [Wallets -> SharedHoldings], ok \in SUBSET Wallets :
          Baseline(held, ok)
    \/ \E held \in [Wallets -> SharedHoldings], ok \in SUBSET Wallets :
          \E write_ok \in BOOLEAN, log_ok \in BOOLEAN :
             poll_count < MaxPolls /\ RunTick(held, ok, << >>, write_ok, log_ok)
    \/ LoopBack
    \/ LoopStop

SpecShared == InitShared /\ [][NextShared]_vars

\* The loop from its start to the ticks after the first trader refresh, on
\* one wallet at first, with or without a configured redeemer; the wallets
\* hold one market or nothing.
InitCadence ==
    /\ InitEnv /\ InitRedeemState /\ InitExec /\ InitMon /\ InitLoop /\ InitLife
    /\ InitSweepIdle /\ InitOrphanIdle /\ InitExtraBase
    /\ configured \in BOOLEAN
    /\ config = DefaultConfig
    /\ self_addresses = <<1>>
    /\ first_held = << >>
    /\ pending = {}
    /\ unshared = {}
    /\ trader_rows = {}
    /\ max_traders = DEFAULT_MAX_TRADERS

CadenceHoldings == {h \in Holdings : DOMAIN h \subseteq {1} /\ 10050 \notin Range(h)}

\* The ticks taken one by one: the first MaxPolls after the start and after
\* each sweep, and the one a sweep is due on, up to the first refresh.
TickInBounds ==
    /\ poll_count < REFRESH_INTERVAL + MaxPolls
    /\ \/ poll_count % CLAIM_SWEEP_INTERVAL < MaxPolls
       \/ (poll_count + 1) % CLAIM_SWEEP_INTERVAL = 0

NextCadence ==
    \/ \E held \in [Wallets -> CadenceHoldings], ok \in SUBSET Wallets :
          Baseline(held, ok)
    \/ \E held \in [Wallets -> CadenceHoldings], ok \in SUBSET Wallets :
          \E refreshed \in RefreshAnswers, write_ok \in BOOLEAN :
             TickInBounds /\ RunTick(held, ok, refreshed, write_ok, TRUE)
    \/ ClaimSweep
    \/ QuietTicks
    \/ LoopBack
    \/ LoopStop

SpecCadence == InitCadence /\ [][NextCadence]_vars

\* The loop that is never stopped, following two wallets whose fetches and
\* whose database writes all succeed, every step of it taken in the end.
NextSharedFair ==
    \/ LoopBack
    \/ ClaimSweep
    \/ QuietTicks
    \/ CountFolded
    \/ \E held \in [Wallets -> CadenceHoldings] : Baseline(held, Wallets)
    \/ \E held \in [Wallets -> CadenceHoldings] :
          TickInBounds /\ RunTick(held, Wallets, << >>, TRUE, TRUE)

SpecSharedFair ==
    InitShared /\ [][NextSharedFair]_vars /\ WF_vars(NextSharedFair)

\* The runner started, stopped and started again on the traders table and
\* the discovery API, the wallets holding nothing.
InitAddresses ==
    /\ InitEnv /\ InitRedeem /\ InitExec /\ InitMon /\ InitLife
    /\ InitSweepIdle /\ InitOrphanIdle /\ InitExtraBase
    /\ config = DefaultConfig
    /\ loop_pc = "stopped"
    /\ loop_end = "none"
    /\ stop_requested = FALSE
    /\ poll_count = 0
    /\ persisted = {}
    /\ tick = NoTick
    /\ self_addresses = << >>
    /\ first_held = << >>
    /\ pending = {}
    /\ unshared = {}
    /\ trader_rows = {}
    /\ max_traders \in 1..(NumTraders - 1)

NoHoldings == [a \in TraderIds |-> EmptySnapshot]

NextAddresses ==
    \/ \E answer \in ApiAnswers, has_key \in BOOLEAN : StartRunner(answer, has_key)
    \/ \E a \in TraderIds : AddTrader(a)
    \/ Baseline(NoHoldings, TraderIds)
    \/ \E refreshed \in ApiAnswers :
          TickInBounds /\ RunTick(NoHoldings, TraderIds, refreshed, TRUE, TRUE)
    \/ ClaimSweep
    \/ QuietTicks
    \/ LoopBack
    \/ LoopStop

SpecAddresses == InitAddresses /\ [][NextAddresses]_vars

\* The differ over the answers of the data API, failures included.
InitFetch == InitOthers /\ config = DefaultConfig

NextFetch ==
    \/ \E addresses \in AddressLists :
          \E responses \in [Range(addresses) -> Responses] :
             DetectChangesFetching(addresses, responses)
    \/ DiffReturn

SpecFetch == InitFetch /\ [][NextFetch]_vars

\* The tick loop of one started bot, in paper mode.
InitRunLoop == InitOthers /\ config = DefaultConfig

NextRunLoop ==
    \/ \E fetched \in [Range(LoopAddresses) -> Snapshots] : BaselineScan(fetched)
    \/ \E fetched \in [Range(LoopAddresses) -> Snapshots] :
          \E write_ok \in BOOLEAN, log_ok \in BOOLEAN :
             Tick(fetched, write_ok, log_ok)
    \/ LoopBack
    \/ LoopStop

SpecRunLoop == InitRunLoop /\ [][NextRunLoop]_vars

\* start() and stop() called from HTTP requests that may overlap.
InitLifecycle == InitOthers /\ config = DefaultConfig

NextLifecycle ==
    \/ \E r \in Requests : StartCall(r)
    \/ \E r \in Requests : StartBuild(r)
    \/ \E r \in Requests : StartSpawn(r)
    \/ \E r \in Requests : StopCall(r)
    \/ \E r \in Requests : StopJoined(r)
    \/ \E r \in Requests : StopClose(r)
    \/ \E t \in TaskIds : TaskPoll(t)
    \/ \E t \in TaskIds : ThreadDone(t)
    \/ \E t \in TaskIds : TaskCancelled(t)

SpecLifecycle == InitLifecycle /\ [][NextLifecycle]_vars

\* ------------------------------------------------------------ C6, C7

\* C6: at any time at most one tick-loop task exists, for any interleaving
\* of start and stop calls.
C6_AtMostOneLoopTask == Cardinality({t \in TaskIds : Alive(t)}) <= 1

\* C7: after stop returns, no worker of the stopped loop is still running
\* detect_changes, and no monitor's client is closed while a worker still
\* runs on it.
C7_NoWorkSurvivesStop ==
    /\ \A r \in Requests :
          (req[r].kind = "stop" /\ req[r].result = "stopped")
             => thread[req[r].awaited] = 0
    /\ \A t \in TaskIds : thread[t] /= 0 => thread[t] \notin closed

\* ------------------------------------------------------------ C4, C5

\* C4: no exception raised inside a tick ends the tick loop; the loop ends
\* only after an explicit stop request.
C4_LoopEndsOnlyOnStop == loop_pc = "done" => stop_requested

\* C5: in each tick every new and every adjusted event is passed to the
\* executor and upserted into the persisted ledger, and every closed event
\* is passed to the executor and deleted from the persisted ledger.
C5_EveryEventRouted ==
    tick.called =>
        /\ \A k \in tick.new : <<"new", k>> \in tick.executed /\ k \in tick.upserted
        /\ \A k \in tick.adjusted :
              <<"adjusted", k>> \in tick.executed /\ k \in tick.upserted
        /\ \A k \in tick.closed :
              <<"closed", k>> \in tick.executed /\ k \in tick.deleted

\* The size comparison applied to pairs of reported sizes.
InitEpsilon == InitOthers /\ config = DefaultConfig

NextEpsilon ==
    \E previous_size \in EpsilonSizes, size \in EpsilonSizes :
        CompareSizes(previous_size, size)

SpecEpsilon == InitEpsilon /\ [][NextEpsilon]_vars

\* --- the position ledgers under any sequence of calls --------------------
InitLedger == InitOthers /\ config = DefaultConfig

NextLedger ==
    \/ \E pos \in LedgerPositions : LedgerOpen(pos)
    \/ \E pos \in LedgerPositions : LedgerAdjust(pos)
    \/ \E pos \in LedgerPositions : LedgerClose(pos)
    \/ \E pos \in LedgerPositions :
          UpsertPosition(pos.market_id, Min(pos.size \div 10, 50000),
                         pos.price, pos.trader)
    \/ \E market_id \in Markets : RemovePosition(market_id)

SpecLedger == InitLedger /\ [][NextLedger]_vars

\* --- a RedemptionService late in a busy day ------------------------------
\* The service has recorded SubmittedEarlier submissions today, of ids other
\* than Cids, the last of them MIN_REDEEM_INTERVAL ago.
SubmittedEarlier == DAILY_TX_LIMIT - 1

InitQuota ==
    /\ InitEnv /\ InitExec /\ InitMon /\ InitLoop /\ InitLife /\ InitExtra
    /\ config = DefaultConfig
    /\ configured = TRUE
    /\ daily_tx_count = SubmittedEarlier
    /\ daily_tx_date = utcDate
    /\ quota_reset_at = 0
    /\ last_redeem_time = now - MIN_REDEEM_INTERVAL
    /\ redeemed_conditions = {}
    /\ batch = << >>
    /\ result = NoResult
    /\ last = NoCall
    /\ prevCall = NoPrev
    /\ everSubmitted = {}
    /\ restarts = 0

NextQuota ==
    \/ \E condition_ids \in BatchInputs, sub \in SubmitOutcomes :
          BatchRedeem(condition_ids, sub)
    \/ \E p \in PollOutcomes : BatchRedeemPoll(p)
    \/ \E d \in ClockSteps : AdvanceClock(d)
    \/ ReturnToCaller
    \/ UtcMidnight

SpecQuota == InitQuota /\ [][NextQuota]_vars

\* --- the result batch_redeem builds from the poll ------------------------
InitPoll == InitOthers /\ config = DefaultConfig

NextPoll ==
    \E to_redeem \in PollBatches, p \in PollOutcomes : FinishPoll(to_redeem, p)

SpecPoll == InitPoll /\ [][NextPoll]_vars

\* --- check_resolved over every answer of the chain -----------------------
InitResolution == InitOthers /\ config = DefaultConfig

NextResolution == \E r \in ChainReads : CheckResolved(r)

SpecResolution == InitResolution /\ [][NextResolution]_vars

\* --- the claim sweep of a running bot ------------------------------------
\* Every market has a row in the table and an entry in the executor's ledger.
InitSweep ==
    /\ InitEnv /\ InitRedeem /\ InitMon /\ InitLoop /\ InitLife
    /\ InitExtraBase
    /\ config = DefaultConfig
    /\ today = 1
    /\ open_positions = [mk \in Markets |-> [size |-> 4000, entry_price |-> 500]]
    /\ daily_pnl = 0
    /\ last_reset_date = today
    /\ calc = NoCalc
    /\ tripped = 0
    /\ sweep_pc = "idle"
    /\ sweep_rows \in SweepTables
    /\ resolved_cids = << >>
    /\ InitOrphanIdle
    /\ InitFeedIdle

NextSweep ==
    \/ \E resolved \in SUBSET Cids : SweepCheck(resolved)
    \/ \E sub \in SubmitOutcomes : SweepRedeem(sub)
    \/ \E p \in PollOutcomes : BatchRedeemPoll(p)
    \/ \E done \in SUBSET sweep_rows : SweepFinish(done)
    \/ \E d \in ClockSteps : AdvanceClock(d)

SpecSweep == InitSweep /\ [][NextSweep]_vars

\* --- orphan discovery over a wallet of orphans ---------------------------
InitOrphans ==
    /\ InitEnv /\ InitRedeem /\ InitExec /\ InitMon /\ InitLoop /\ InitLife
    /\ InitExtraBase
    /\ InitSweepIdle
    /\ InitFeedIdle
    /\ config = DefaultConfig
    /\ orphan_env \in OrphanEnvs
    /\ orphan_cids = << >>

NextOrphans ==
    \/ \E fetched \in BOOLEAN : DiscoverFetch(fetched)
    \/ \E reads_ok \in BOOLEAN : DiscoverCheck(reads_ok)
    \/ \E sub \in SubmitOutcomes : DiscoverRedeem(sub)
    \/ \E p \in PollOutcomes : BatchRedeemPoll(p)
    \/ DiscoverReturn
    \/ \E d \in ClockSteps : SweepPause(d)

SpecOrphans == InitOrphans /\ [][NextOrphans]_vars

\* --- repeated discovery sweeps while everything the sweep relies on works:
\* the index answers, the on-chain reads answer, the relayer accepts the
\* batch and raises no rate limit, so the quota gate lets every batch pass.
\* The run loop keeps calling the sweep and each await returns.
NextOrphansFair ==
    \/ DiscoverFetch(TRUE)
    \/ DiscoverCheck(TRUE)
    \/ \E sub \in {s \in SubmitOutcomes : s.kind = "ok"} : DiscoverRedeem(sub)
    \/ \E p \in {q \in PollOutcomes : q.state /= "raise_rate"} :
          BatchRedeemPoll(p)
    \/ DiscoverReturn
    \/ \E d \in ClockSteps : SweepPause(d)

SpecOrphansFair ==
    InitOrphans /\ [][NextOrphansFair]_vars /\ WF_vars(NextOrphansFair)

\* --- the executor's daily P&L on a host in UTC ---------------------------
InitDailyPnl == InitOthers /\ config = DefaultConfig

NextDailyPnl ==
    \/ \E pos \in PnlPositions : PnlCalculateSize(pos)
    \/ \E pos \in PnlPositions : PnlOpen(pos)
    \/ \E pos \in PnlPositions : PnlClose(pos)
    \/ Midnight

SpecDailyPnl == InitDailyPnl /\ [][NextDailyPnl]_vars

\* ------------------------------------------------------------ C10

Emitted(list, addr, mid) ==
    \E i \in DOMAIN list : list[i].trader = addr /\ list[i].market_id = mid

\* Whether two stored sizes, taken as the real numbers the doubles are, are
\* more than 0.01 apart.
ApartByMoreThanCent(a, b) ==
    LET d == Abs(a - b)
        e == IF a >= b THEN FloatErr(a) - FloatErr(b)
                       ELSE FloatErr(b) - FloatErr(a)
    IN  d > 10 \/ (d = 10 /\ e > 0)

C8_SizeWithinActiveCap ==
    calc.called =>
        /\ calc.result >= 0
        /\ IF config.account_balance_usd /= 0
              THEN calc.result * 1000
                      <= config.account_balance_usd * config.max_position_pct
              ELSE calc.result <= config.max_position_usd

\* C9: once DailyPnL has been at or below -daily_loss_limit on the current
\* UTC date, every calculate_size call returns 0.
C9_HaltedUntilUtcDateAdvances ==
    (calc.called /\ calc.halted) => calc.result = 0

\* ------------------------------------------------------------ C1, C2, C3

\* C1 as stated: every batch_redeem call with a nonempty list of ids that are
\* not yet in RedeemedSet raises the daily counter by exactly 1 and makes
\* exactly one relayer submission.
C1_NewBatchAlwaysCostsOne ==
    (last.outcome /= "none" /\ last.allNew)
        => (last.after = last.before + 1 /\ last.subs = 1)

\* C1 amended: a batch_redeem call with a nonempty list of N new ids makes
\* exactly one relayer submission and leaves the daily counter exactly 1
\* above its value after the quota gate's date-rollover reset, whatever N is,
\* when the service is configured, the gate allows and the submission call
\* returns; in every other case it makes no submission and adds nothing to
\* the counter.
C1_SubmittedBatchCostsOne ==
    (last.outcome /= "none" /\ last.allNew) =>
        LET base == IF last.rolled THEN 0 ELSE last.before
        IN  IF last.outcome = "submitted"
               THEN last.subs = 1 /\ last.after = base + 1
               ELSE last.subs = 0 /\ last.after = base

C1_Witness ==
    /\ last.outcome = "submitted"
    /\ last.allNew
    /\ last.nNew >= 2
    /\ last.after = 1

\* C2: within one process a condition id is included in at most one relayer
\* submission, across sweeps and bot stop/start cycles.
C2_SubmittedAtMostOncePerProcess == ~last.resubmitted

\* C3 as stated: a batch_redeem call whose id set equals that of the call
\* before it makes no relayer submission and leaves the daily counter alone.
C3_RepeatedCallRedeemsNothing ==
    last.repeat => (last.subs = 0 /\ last.after = last.before)

\* C3 amended: a batch_redeem call whose id set equals that of the call
\* before it on the same service, when that call got its batch submitted
\* (or found every id already redeemed), is a no-op: no relayer submission,
\* the daily counter unchanged, success with an empty redeemed list.
C3_RepeatAfterSubmissionRedeemsNothing ==
    (last.repeat /\ last.prevRecorded) =>
        /\ last.outcome = "noop"
        /\ last.subs = 0
        /\ last.after = last.before
        /\ result.success /\ result.redeemed = << >>

C3_Witness ==
    /\ last.repeat
    /\ last.prevRecorded
    /\ last.outcome = "noop"
    /\ last.n >= 2
    /\ daily_tx_count = 1

\* ------------------------------------------------------------ C11, C12

Occurrences(list, addr, mid) ==
    Cardinality({i \in DOMAIN list :
                    list[i].trader = addr /\ list[i].market_id = mid})

\* C11: for one wallet's pair (previous, current), every market id of
\* previous or current is in exactly one of the classes unchanged (in both,
\* sizes not more than 0.01 apart), new, closed, adjusted; the three lists
\* are pairwise disjoint, hold no market id twice and nothing else.
C11_DiffPartitions ==
    diff.called =>
        \A addr \in Range(diff.addresses), mid \in WatchedMarkets :
            LET current == diff.fetched[addr]
                previous == IF addr \in DOMAIN diff.before
                               THEN diff.before[addr] ELSE << >>
                unchanged == /\ mid \in DOMAIN current \cap DOMAIN previous
                             /\ ~ApartByMoreThanCent(current[mid], previous[mid])
                classes == Occurrences(diff.new, addr, mid)
                              + Occurrences(diff.closed, addr, mid)
                              + Occurrences(diff.adjusted, addr, mid)
                              + (IF unchanged THEN 1 ELSE 0)
            IN  IF mid \in DOMAIN current \cup DOMAIN previous
                   THEN classes = 1 ELSE classes = 0

\* One wallet with a new and a closed market in the same diff, another with
\* an unchanged and an adjusted one.
C11_Witness ==
    /\ diff.called
    /\ \E a \in Range(diff.addresses), m1 \in WatchedMarkets, m2 \in WatchedMarkets :
          Emitted(diff.new, a, m1) /\ Emitted(diff.closed, a, m2)
    /\ \E a \in Range(diff.addresses) \cap DOMAIN diff.before :
          /\ \E m \in DOMAIN diff.fetched[a] \cap DOMAIN diff.before[a] :
                diff.fetched[a][m] = diff.before[a][m]
          /\ \E m \in WatchedMarkets : Emitted(diff.adjusted, a, m)

\* C12: a market in both snapshots whose size changed by exactly 0.01 or
\* less is never classified adjusted, and one whose size changed by 0.011 or
\* more always is.
C12_EpsilonBoundary ==
    eps.called =>
        /\ Abs(eps.current - eps.previous) <= 10 => ~eps.adjusted
        /\ Abs(eps.current - eps.previous) >= 11 => eps.adjusted

\* C13: at most one open position per market identifier, in the executor's
\* ledger and in the persisted ledger, after any sequence of open, adjust,
\* close, upsert and remove calls for the positions of any wallet.
C13_OnePositionPerMarket ==
    \A m \in Markets :
        /\ Cardinality({it \in position_items : it.market_id = m}) <= 1
        /\ Cardinality({r \in position_rows : r.market_id = m}) <= 1

\* Both ledgers have taken a second write for a market they already held.
C13_Witness ==
    /\ ledger_obs.replaced
    /\ ledger_obs.conflict
    /\ position_items /= {}
    /\ position_rows /= {}

\* C14: the step in which client.execute returns leaves the daily counter
\* one above its value after the gate and every submitted id in
\* _redeemed_conditions, before the poll; and the step in which the poll ends,
\* whatever it ends with, changes neither the counter nor the set.
C14_RecordedAtSubmission ==
    [][/\ (batch = << >> /\ batch' /= << >>) =>
             /\ daily_tx_count' =
                   (IF QuotaRolls(utcDate, daily_tx_date) THEN 0
                                                          ELSE daily_tx_count) + 1
             /\ Range(batch') \subseteq redeemed_conditions'
       /\ (batch /= << >> /\ result' /= NoResult) =>
             /\ Range(batch) \subseteq redeemed_conditions
             /\ redeemed_conditions' = redeemed_conditions
             /\ daily_tx_count' = daily_tx_count]_vars

\* A batch was submitted and its poll has ended in the failed state: its ids
\* are in the set and its slot is counted.
C14_Witness ==
    /\ result.error = "failed on-chain"
    /\ redeemed_conditions /= {}
    /\ daily_tx_count >= 1

\* C15: when the poll of a submitted batch ends in the failed state, none of
\* the batch's ids is in _redeemed_conditions (so that a later sweep submits
\* them again), and the slot the submission took stays counted.
C15_FailedBatchNotInRedeemedSet ==
    [][(batch /= << >> /\ result'.error = "failed on-chain") =>
          /\ Range(batch) \cap redeemed_conditions' = {}
          /\ daily_tx_count' = daily_tx_count]_vars

\* C16: once calculate_size has done the reset of the current day, daily_pnl
\* is the sum of the P&L that close_position calls realized since the last
\* midnight, whatever the order of the calls around the midnight.
C16_DailyPnlIsTodaysRealized ==
    last_reset_date = today => daily_pnl = realized_today

\* C17: the daily counter never exceeds DAILY_TX_LIMIT, and a batch_redeem
\* with new ids that finds the counter at the ceiling, on the stored date, is
\* denied without a submission.
C17_CounterWithinDailyLimit ==
    /\ daily_tx_count <= DAILY_TX_LIMIT
    /\ (last.nNew > 0 /\ ~last.rolled /\ last.before >= DAILY_TX_LIMIT) =>
          /\ last.outcome = "denied"
          /\ last.subs = 0
          /\ last.after = last.before

\* A batch of new ids has just been denied at the ceiling.
C17_Witness ==
    /\ last.nNew > 0
    /\ last.before = DAILY_TX_LIMIT
    /\ last.outcome = "denied"
    /\ daily_tx_count = DAILY_TX_LIMIT
    /\ quota_reset_at = 0
    /\ now - last_redeem_time >= MIN_REDEEM_INTERVAL

\* C18: every submission a service records is at least MIN_REDEEM_INTERVAL
\* after the one the same service recorded before it, whichever caller made
\* the two calls.
C18_SubmissionsSpacedByInterval ==
    [][(batch = << >> /\ batch' /= << >>) =>
          /\ last_redeem_time' = now
          /\ last_redeem_time' - last_redeem_time >= MIN_REDEEM_INTERVAL]_vars

\* A service records its second submission.
C18_Witness ==
    /\ last.outcome = "submitted"
    /\ batch /= << >>
    /\ restarts = 0
    /\ everSubmitted \ Range(batch) /= {}
    /\ last_redeem_time = now

\* C19: while the clock has not reached the cooldown timestamp that a
\* rate-limit error set on a service, that service makes no submission.
C19_NoSubmissionDuringCooldown ==
    [][(quota_reset_at > 0 /\ now < quota_reset_at /\ restarts' = restarts) =>
          ~(batch = << >> /\ batch' /= << >>)]_vars

\* C20: a batch_redeem that evaluates the gate when the UTC date is past the
\* stored date leaves the counter at zero plus its own submission and stores
\* the date; any other step of the same service with the date unchanged
\* leaves the counter where it was or one higher.
C20_CounterResetOnDateChangeOnly ==
    [][restarts' = restarts =>
          LET gate == /\ batch = << >> /\ result = NoResult
                      /\ last'.outcome \in {"denied", "submitted", "raised"}
          IN  /\ (gate /\ utcDate > daily_tx_date) =>
                    /\ daily_tx_count' =
                          (IF last'.outcome = "submitted" THEN 1 ELSE 0)
                    /\ daily_tx_date' = utcDate
              /\ (gate /\ utcDate = daily_tx_date) =>
                    /\ daily_tx_count' >= daily_tx_count
                    /\ daily_tx_count' <= daily_tx_count + 1
              /\ ~gate => daily_tx_count' = daily_tx_count]_vars

\* The gate has just reset a counter that stood above zero.
C20_Witness ==
    /\ last.rolled
    /\ last.before >= 1
    /\ last.after = 0
    /\ daily_tx_count = 0
    /\ daily_tx_date = utcDate

\* C21: a batch_redeem that the gate denies, or whose client.execute raises,
\* adds no id to _redeemed_conditions, records no submission time and leaves
\* the counter at its value after the gate's date test, so the ids of the
\* call still pass the filter of a later call.
C21_DeniedOrRaisedRecordsNothing ==
    [][(/\ batch = << >> /\ result = NoResult
        /\ last'.outcome \in {"denied", "raised"}) =>
          /\ redeemed_conditions' = redeemed_conditions
          /\ last_redeem_time' = last_redeem_time
          /\ daily_tx_count' =
                (IF QuotaRolls(utcDate, daily_tx_date) THEN 0 ELSE daily_tx_count)
          /\ batch' = << >>
          /\ last'.subs = 0
          /\ \A ids \in BatchInputs :
                ToRedeem(ids, redeemed_conditions')
                    = ToRedeem(ids, redeemed_conditions)]_vars

\* The ids of a call that was denied or raised are submitted by the next.
C21_Witness ==
    /\ last.outcome = "submitted"
    /\ last.repeat
    /\ ~last.prevRecorded
    /\ last.nNew >= 1
    /\ prevCall.idset \subseteq redeemed_conditions

C23_SweepRemovesOnlyRedeemed ==
    [][\A r \in sweep_rows :
          (\/ r \notin sweep_rows'
           \/ (/\ r.market_id \in DOMAIN open_positions
               /\ r.market_id \notin DOMAIN open_positions')) =>
             /\ result.success
             /\ r.condition_id \in Range(result.redeemed)]_vars

\* The sweep has removed the position of a redeemed condition and kept
\* another one.
C23_Witness ==
    /\ sweep_pc = "idle"
    /\ \E mk \in Markets :
          /\ mk \notin DOMAIN open_positions
          /\ mk \notin {r.market_id : r \in sweep_rows}
    /\ sweep_rows /= {}
    /\ redeemed_conditions /= {}

\* C24: one call of discover_and_redeem_orphans checks at most
\* DISCOVERY_MAX_PER_SWEEP distinct condition ids, each the id of an index
\* position above the dust size, not among known_condition_ids and, when
\* the checks run, not in _redeemed_conditions; it hands batch_redeem only
\* candidates found resolved, and what is submitted is one relayer call
\* holding only such candidates.
C24_OrphanChecksCappedAndEligible ==
    /\ Len(orphan_cids) <= DISCOVERY_MAX_PER_SWEEP
    /\ Cardinality(Range(orphan_cids)) = Len(orphan_cids)
    /\ \A c \in Range(orphan_cids) :
          /\ \E i \in DOMAIN orphan_env.positions :
                /\ orphan_env.positions[i].conditionId = c
                /\ orphan_env.positions[i].size > DUST_SIZE
          /\ c \notin orphan_env.known
          /\ sweep_pc = "orphans" => c \notin redeemed_conditions
    /\ sweep_pc \in {"orphans_checked", "done"} =>
          /\ Range(resolved_cids)
                \subseteq Range(orphan_cids) \cap orphan_env.resolved
          /\ Range(batch) \subseteq Range(resolved_cids)
          /\ last.subs <= 1

\* A sweep over more orphans than it may check has submitted some of the
\* five it checked, with an unresolved one among them.
C24_Witness ==
    /\ sweep_pc = "orphans_checked"
    /\ Len(orphan_cids) = DISCOVERY_MAX_PER_SWEEP
    /\ \E c \in OrphanIds \ Range(orphan_cids) :
          /\ c \notin orphan_env.known
          /\ c \in orphan_env.resolved
          /\ \E i \in DOMAIN orphan_env.positions :
                /\ orphan_env.positions[i].conditionId = c
                /\ orphan_env.positions[i].size > DUST_SIZE
    /\ last.subs = 1
    /\ Len(batch) \in 2..(DISCOVERY_MAX_PER_SWEEP - 1)

\* An orphan position whose condition is resolved on-chain.
ResolvedOrphan(c) ==
    /\ c \in orphan_env.resolved
    /\ c \notin orphan_env.known
    /\ \E i \in DOMAIN orphan_env.positions :
          /\ orphan_env.positions[i].conditionId = c
          /\ orphan_env.positions[i].size > DUST_SIZE

\* C25: while the index, the on-chain reads and the quota gate keep
\* succeeding, the condition id of a resolved orphan position is eventually
\* part of a submitted batch, whatever else the wallet holds.
\* (The wallet, the known ids and the resolved conditions stay as they are
\* and a submitted id stays submitted, so "each one eventually" is
\* "eventually all".)
C25_ResolvedOrphanEventuallySubmitted ==
    <>(\A c \in OrphanIds : ResolvedOrphan(c) => c \in everSubmitted)

\* The quota gate has not denied a batch of the sweep.
OrphanGateNeverDenies ==
    last.outcome \notin {"denied", "raised"}

\* C26: check_resolved returns the two payout numerators exactly when the
\* denominator read succeeds with a nonzero value and both numerator reads
\* succeed; with a zero denominator or any failing step it returns None and
\* raises nothing.
C26_NumeratorsIffResolvedAndRead ==
    resolution.called =>
       LET r == resolution.reads
           ok == /\ r.setup /= FAILED
                 /\ r.denominator \notin {FAILED, 0}
                 /\ r.numerator0 /= FAILED
                 /\ r.numerator1 /= FAILED
       IN  /\ ~resolution.returned.raises
           /\ ok => /\ resolution.returned.resolved
                    /\ resolution.returned.numerators
                          = <<r.numerator0, r.numerator1>>
           /\ ~ok => /\ ~resolution.returned.resolved
                     /\ resolution.returned.numerators = << >>

\* The second numerator read failed after a nonzero denominator and a first
\* numerator.
C26_Witness ==
    /\ resolution.called
    /\ resolution.reads.setup /= FAILED
    /\ resolution.reads.denominator > 0
    /\ resolution.reads.numerator0 > 0
    /\ resolution.reads.numerator1 = FAILED
    /\ ~resolution.returned.resolved
    /\ resolution.returned.calls = 3

\* C27: whatever open_position, adjust_position and close_position calls
\* are made, the executor's ledger never holds more entries than
\* max_concurrent_positions.
C27_LedgerWithinConcurrentLimit ==
    Cardinality(DOMAIN open_positions) <= config.max_concurrent_positions

\* With the ledger full, a position of another market that would otherwise
\* get a size was sized to 0.
C27_Witness ==
    /\ Cardinality(DOMAIN open_positions) = config.max_concurrent_positions
    /\ DOMAIN open_positions /= Markets
    /\ calc.called
    /\ calc.result = 0
    /\ SizeFor(config, 0, daily_pnl, calc.size) > 0

\* C28: an adjust_position call for a market that has no ledger entry
\* creates none; a ledger entry is created by open_position only.
C28_AdjustCreatesNoEntry ==
    handled.kind = "adjust" =>
        DOMAIN open_positions \subseteq DOMAIN handled.before

\* C29: when calculate_size returns 0, open_position and adjust_position
\* leave the ledger as it was and place no order; an adjustment sized 0
\* neither changes nor closes the entry of its market.
C29_ZeroSizeIsNoOp ==
    (handled.kind \in {"open", "adjust"} /\ handled.size = 0) =>
        /\ open_positions = handled.before
        /\ handled.orders = 0

\* In live mode an adjustment of a held market was sized 0 and the entry
\* is still there.
C29_Witness ==
    /\ handled.kind = "adjust"
    /\ handled.size = 0
    /\ ~config.paper_trading
    /\ handled.has_token
    /\ handled.market_id \in DOMAIN handled.before
    /\ handled.market_id \in DOMAIN open_positions

\* C30: in live mode open_position writes the entry of its market, with the
\* size calculated and the position's price, when the venue answers with an
\* accepted status; when the submission raises, the token id is missing or
\* the status is another one, the ledger is as before.
C30_LiveOpenWritesOnlyWhenAccepted ==
    (handled.kind = "open" /\ ~config.paper_trading) =>
        IF handled.size > 0 /\ handled.has_token /\ handled.order = "accepted"
           THEN open_positions =
                   Put(handled.before, handled.market_id,
                       [size |-> handled.size, entry_price |-> handled.price])
           ELSE open_positions = handled.before

\* A live order with a size and a token id was answered with a status that
\* is not accepted, and the ledger, which holds another market, is as before.
C30_Witness ==
    /\ handled.kind = "open"
    /\ ~config.paper_trading
    /\ handled.size > 0
    /\ handled.has_token
    /\ handled.order = "rejected"
    /\ handled.orders = 1
    /\ handled.before /= << >>
    /\ handled.market_id \notin DOMAIN open_positions

\* C31: close_position for a market in the ledger removes the entry and,
\* when the entry price is above 0, adds size * (close price / entry price
\* - 1) to daily_pnl, in live mode also when the sell order fails or cannot
\* be placed; for a market not in the ledger it changes neither.
C31_CloseRemovesAndRealizes ==
    handled.kind = "close" =>
        LET m == handled.market_id
        IN  IF m \in DOMAIN handled.before
               THEN LET entry == handled.before[m]
                    IN  /\ m \notin DOMAIN open_positions
                        /\ \A k \in DOMAIN handled.before \ {m} :
                              /\ k \in DOMAIN open_positions
                              /\ open_positions[k] = handled.before[k]
                        /\ daily_pnl = handled.pnl +
                              (IF entry.entry_price > 0
                                  THEN (entry.size * handled.price)
                                          \div entry.entry_price - entry.size
                                  ELSE 0)
               ELSE /\ open_positions = handled.before
                    /\ daily_pnl = handled.pnl

\* In live mode the sell order of a held market failed; the entry is gone
\* and a loss was realized.
C31_Witness ==
    /\ handled.kind = "close"
    /\ ~config.paper_trading
    /\ handled.order = "raise"
    /\ handled.orders = 1
    /\ handled.market_id \in DOMAIN handled.before
    /\ handled.market_id \notin DOMAIN open_positions
    /\ daily_pnl < handled.pnl

\* C32: after adjust_position has calculated a size above 0, the entry of
\* the market is {new size, the position's price} in paper mode and, in live
\* mode, when the new size and the ledger's differ by 1.0 or more, whatever
\* the venue did with the delta order; in live mode with a smaller
\* difference the ledger is as before and no order was placed.
C32_AdjustOverwritesEntry ==
    (handled.kind = "adjust" /\ handled.size > 0) =>
        LET m == handled.market_id
            old_size == IF m \in DOMAIN handled.before
                           THEN handled.before[m].size ELSE 0
            written == Put(handled.before, m,
                           [size |-> handled.size,
                            entry_price |-> handled.price])
        IN  IF config.paper_trading THEN open_positions = written
            ELSE IF Abs(handled.size - old_size) >= 1000
               THEN open_positions = written
               ELSE open_positions = handled.before /\ handled.orders = 0

\* In live mode the delta order of a held market raised and the entry has the
\* new size and price all the same.
C32_Witness ==
    /\ handled.kind = "adjust"
    /\ ~config.paper_trading
    /\ handled.order = "raise"
    /\ handled.orders = 1
    /\ handled.market_id \in DOMAIN handled.before
    /\ handled.before[handled.market_id].size /= handled.size
    /\ handled.before[handled.market_id].entry_price /= handled.price
    /\ open_positions[handled.market_id] =
          [size |-> handled.size, entry_price |-> handled.price]

\* In live mode an adjustment to the size already held left the entry, with
\* its older price, alone.
AdjustBelowMinimumSeen ==
    /\ handled.kind = "adjust"
    /\ ~config.paper_trading
    /\ handled.size > 0
    /\ handled.market_id \in DOMAIN handled.before
    /\ handled.before[handled.market_id].size = handled.size
    /\ handled.before[handled.market_id].entry_price /= handled.price
    /\ open_positions = handled.before

\* C34: after detect_changes has polled a wallet, its stored snapshot is
\* exactly the map fetched in that poll, nothing of the previous snapshot is
\* carried over, and the snapshots of the wallets outside the polled list are
\* as they were.
C34_SnapshotReplacedWholesale ==
    diff.called =>
        /\ \A a \in Range(diff.addresses) :
              /\ a \in DOMAIN known_positions
              /\ known_positions[a] = diff.fetched[a]
        /\ \A a \in Wallets \ Range(diff.addresses) :
              /\ a \in DOMAIN known_positions <=> a \in DOMAIN diff.before
              /\ PreviousOf(known_positions, a) = PreviousOf(diff.before, a)

\* A poll of wallet 1 alone that no longer reports a market of its previous
\* snapshot, while wallet 2 has a snapshot of its own.
C34_Witness ==
    /\ diff.called
    /\ diff.addresses = <<1>>
    /\ 1 \in DOMAIN diff.before
    /\ 2 \in DOMAIN diff.before
    /\ diff.before[2] /= EmptySnapshot
    /\ \E m \in DOMAIN diff.before[1] : m \notin DOMAIN diff.fetched[1]
    /\ known_positions[1] = diff.fetched[1]
    /\ known_positions[2] = diff.before[2]

\* The events of one wallet in the lists detect_changes returned.
EventsOf(list, a) == SelectSeq(list, LAMBDA pos : pos.trader = a)

\* C35: when the fetch of one wallet fails, detect_changes still returns:
\* that wallet's current map is empty and every market of its previous
\* snapshot is reported closed, and the events of the other wallets of the
\* poll are those their own fetch and snapshot give.
C35_FailedFetchClosesAll ==
    diff.called =>
        /\ \A a \in diff.failed :
              /\ diff.fetched[a] = EmptySnapshot
              /\ known_positions[a] = EmptySnapshot
              /\ EventsOf(diff.new, a) = << >>
              /\ EventsOf(diff.adjusted, a) = << >>
              /\ EventsOf(diff.closed, a)
                     = Items(a, PreviousOf(diff.before, a))
        /\ \A b \in Range(diff.addresses) \ diff.failed :
              LET previous == PreviousOf(diff.before, b)
              IN  /\ EventsOf(diff.new, b)
                        = WalletNew(b, diff.fetched[b], previous)
                  /\ EventsOf(diff.closed, b)
                        = WalletClosed(b, diff.fetched[b], previous)
                  /\ EventsOf(diff.adjusted, b)
                        = WalletAdjusted(b, diff.fetched[b], previous)
                  /\ known_positions[b] = diff.fetched[b]

\* The fetch of wallet 1 failed while it held two markets, and wallet 2,
\* polled after it, reports a new market.
C35_Witness ==
    /\ diff.called
    /\ diff.addresses = <<1, 2>>
    /\ diff.failed = {1}
    /\ 1 \in DOMAIN diff.before
    /\ DOMAIN diff.before[1] = WatchedMarkets
    /\ Len(EventsOf(diff.closed, 1)) = 2
    /\ Len(EventsOf(diff.new, 2)) >= 1
    /\ known_positions[1] = EmptySnapshot

\* The events of a tick for one market of one wallet.
TickEventsFor(b, m) ==
    {k \in tick.new \cup tick.closed \cup tick.adjusted : k = <<b, m>>}

\* C33, as stated: once a closed event of one wallet has removed the ledger
\* entry of a market that another wallet holds, the market has no entry for
\* as long as the other wallet's holding stays unchanged.
C33_NoEventReopens ==
    tick.called => \A u \in unshared : u[1] \notin DOMAIN open_positions

\* C33, amended: the ledger is keyed by market only.  A closed event of one
\* wallet removes the entry although the other wallet's snapshot still has
\* the market; while the other wallet's holding stays unchanged its polls
\* that succeed on an intact snapshot emit no event for the market; and the
\* entry is back only after a new or adjusted event for the market was
\* handed to the executor, an event of the other wallet only after a failed
\* fetch had emptied its snapshot.
C33_ClosedByEitherWallet ==
    tick.called =>
        \A u \in unshared :
            LET m == u[1]
                b == u[2]
                intact == b \in DOMAIN tick.before /\ m \in DOMAIN tick.before[b]
            IN  /\ (b \in tick.ok /\ intact) => TickEventsFor(b, m) = {}
                /\ (\E e \in tick.executed :
                       e[1] = "closed" /\ e[2][2] = m /\ m \in DOMAIN tick.ledger)
                      => m \notin DOMAIN open_positions
                /\ m \in DOMAIN open_positions =>
                      \E e \in tick.executed :
                         /\ e[1] \in {"new", "adjusted"}
                         /\ e[2][2] = m
                         /\ e[2][1] = b => ~intact

\* Wallet 1 has sold market 1, its closed event has removed the entry, and
\* wallet 2 holds market 1 as before.
C33_Witness ==
    /\ tick.called
    /\ <<"closed", <<1, 1>>>> \in tick.executed
    /\ 1 \in DOMAIN tick.ledger
    /\ 1 \notin DOMAIN open_positions
    /\ 1 \in DOMAIN known_positions[2]
    /\ \E u \in unshared : u[1] = 1 /\ u[2] = 2

\* A later tick in which wallet 2, holding market 1 unchanged, is polled and
\* nothing is emitted for it, the market still without entry.
SharedHoldingIgnored ==
    /\ tick.called
    /\ tick.executed = {}
    /\ 2 \in tick.ok
    /\ \E u \in unshared : u[1] = 1 /\ u[2] = 2
    /\ 1 \notin DOMAIN open_positions

\* C36: no position a wallet has held since before the runner first polled
\* it is handed to open_position, whether the wallet was on the list at the
\* start, was added by the trader refresh, or had its first fetch fail.
C36_HeldBeforeFirstPollNeverOpened ==
    tick.called => tick.opened_held = {}

\* A tick has ended: past its last statement, in the except handler's sleep,
\* or with the task dead from the handler's own exception.
TickEnded ==
    /\ tick.called
    /\ \/ loop_pc \in {"ticked", "errsleep"}
       \/ loop_pc = "done" /\ loop_end = "crashed"

\* The events of the tick on record that were handed to the executor.
AllHandled ==
    tick.executed =
        {<<"new", k>> : k \in tick.new}
            \cup {<<"closed", k>> : k \in tick.closed}
            \cup {<<"adjusted", k>> : k \in tick.adjusted}

\* C39: the claim sweep runs on exactly the ticks whose count is a positive
\* multiple of CLAIM_SWEEP_INTERVAL while the redeemer is configured, and
\* after the events of the tick have been handled.
C39_SweepOnEveryDueTick ==
    TickEnded =>
        /\ tick.swept <=> SweepDue(tick.count, tick.is_configured)
        /\ tick.swept => AllHandled

\* What holds of the cadence: the sweep runs on no other tick, after the
\* events, and on every due tick in which nothing raised.
SweepCadenceUnlessRaised ==
    TickEnded =>
        /\ tick.swept => SweepDue(tick.count, tick.is_configured) /\ AllHandled
        /\ (SweepDue(tick.count, tick.is_configured) /\ ~tick.raised)
              => tick.swept

\* A sweep has run on tick 360 after a closed event was handled.
SweepAfterEventsSeen ==
    /\ TickEnded
    /\ tick.swept
    /\ tick.count = CLAIM_SWEEP_INTERVAL
    /\ tick.closed /= {}

\* A wallet the refresh added is polled for the first time in a tick and the
\* market it holds is opened.
RefreshedWalletCopied ==
    /\ tick.called
    /\ tick.count = REFRESH_INTERVAL
    /\ 2 \notin DOMAIN tick.before
    /\ <<2, 1>> \in tick.opened_held

\* A wallet whose baseline fetch failed has its holding opened at tick 1.
FailedBaselineCopied ==
    /\ tick.called
    /\ tick.count = 1
    /\ <<1, 1>> \in tick.opened_held

\* C37: at the end of every tick the positions table holds a row for exactly
\* the markets the executor's ledger has an entry for.
C37_PersistedMatchesLedger ==
    TickEnded => persisted = DOMAIN open_positions

\* The events two wallets can emit for the market they trade.
SharedEvents ==
    {<<kind, <<a, 1>>>> : kind \in {"new", "closed", "adjusted"}, a \in Wallets}

\* C38: every event detect_changes returns is handed to the executor in the
\* end, in the tick that emitted it or in a later one, also when the
\* handling of an earlier event of the tick raised.  (An event is pending from
\* the tick that emitted it to the executor call made for it: that every
\* pending event is handled in the end is that no event is pending for
\* ever.)
C38_EveryEventEventuallyHandled ==
    \A e \in SharedEvents : []<>(e \notin pending)

\* What holds of the routing: a tick in which nothing raises hands every
\* event it got to the executor.
UnraisedTickHandlesAll ==
    (tick.called /\ ~tick.raised) => AllHandled

\* C40: the runner's address list never holds more than max_traders
\* addresses, whether start() loaded it from the traders table or fetched it
\* from the discovery API, or a refresh fetched it.
C40_AddressesWithinMaxTraders ==
    Len(self_addresses) <= max_traders

\* What holds of the limit: a list fetched from the discovery API, at start
\* or at a refresh, has at most max_traders addresses.
FetchedListWithinLimit ==
    [][(/\ self_addresses' /= self_addresses
        /\ \/ loop_pc = "sleep"
           \/ trader_rows = {})
          => Len(self_addresses') <= max_traders]_vars

\* The list outgrows the limit with nothing in the table but what the
\* runner itself stored from the discovery API.
ApiRowsOutgrowLimit ==
    /\ Len(self_addresses) > max_traders
    /\ \A r \in trader_rows : r.source = "api"

====
